---- MODULE Spec2Model ----
(***************************************************************************)
(* A model of the data-normalisation core of the dashboard repository:     *)
(*   utils/memo_merge.py   apply_memo_style_merge (style-mapping merge)     *)
(*   signet/cleaner.py     SignetCleaner.clean    (extract cleaner)         *)
(* Table cells are records [k, s]: k = "str" with the characters s,        *)
(* k = "nan" for a missing float cell, k = "NA" for pandas' pd.NA.         *)
(* Strings are sequences of one-character strings so that strip, upper     *)
(* and the parsers are computed character by character.                    *)
(* pandas semantics are those of the 1.x/2.x line, which the cleaner's use *)
(* of the option mode.use_inf_as_na requires.                              *)
(***************************************************************************)
EXTENDS Integers, Sequences, FiniteSets, TLC

VARIABLES
    df,             \* memo_merge: the caller's primary table (columns, rows)
    map_df,         \* memo_merge: the mapping table as pd.read_csv returned it
    strict_unique,  \* memo_merge: the strict_unique argument
    merge_pc,       \* memo_merge: "call", "returned", "ValueError", "KeyError"
    merged,         \* memo_merge: the returned table (<<>> until returned)
    diag,           \* memo_merge: the returned MergeDiagnostics
    df_raw,         \* cleaner: the raw table given to clean() (columns, rows)
    clean_pc,       \* cleaner: "call", "returned", "ValueError", "TypeError"
    clean_out,      \* cleaner: the rows clean() returned (<<>> until returned)
    clean_err,      \* cleaner: the columns the ValueError names
    canon,          \* dedupe: the caller's canonical table (rows)
    dd_in,          \* dedupe: the table given to the latest dedupe_within_month
    dd_out,         \* dedupe: the table the latest call returned
    dd_calls,       \* dedupe: the number of calls made, each on the last result
    master,         \* cli: the master dataset file (exists, rows)
    csv_file,       \* cli: the cleaned output file (exists, rows)
    cli_args,       \* cli: the arguments of the latest run
    cli_exit,       \* cli: the exit status of the latest run
    cli_err,        \* cli: the uncaught exception of the latest run (type, missing)
    cli_clean,      \* cli: the cleaned, deduplicated table of the latest run
    cli_prev,       \* cli: the two files as they were before the latest run
    cli_latest,     \* cli: per period, the rows of the latest run that went into the master
    cli_appended,   \* cli: some run so far went into an existing master with --no-replace
    cli_runs,       \* cli: the number of runs so far
    label,          \* disposition: the caller's Series of raw labels
    disp_in,        \* disposition: the Series given to the latest normalize_disposition
    disp_out,       \* disposition: the Series the latest call returned
    disp_calls,     \* disposition: the number of calls made, each on the last result
    page_name,      \* memo page: "current" (pages/10) or "legacy" (pages/2)
    page_df,        \* memo page: the table before the filter (has_disposition, Disposition)
    page_disp,      \* memo page: the _Disp column
    disp_options,   \* memo page: the options of the Disposition control
    disp_selected,  \* memo page: the options selected in the control
    page_shown,     \* memo page: the positions of the rows left after the filter
    page_pc,        \* memo page: "start", "done"
    month_path,     \* report month: the path or name given to infer_report_month
    month_now,      \* report month: datetime.now().strftime("%Y-%m") at the call
    month_out,      \* report month: the returned text (<<>> until returned)
    month_pc,       \* report month: "call", "returned"
    session,        \* app: st.session_state, a function on the keys it holds
    clock,          \* app: the time, against which a token's expiry is read
    run,            \* app: the latest run of Home.py (before, clock, form, out, nav, at_logout)
    auth_runs       \* app: the number of runs so far

mergeVars == <<df, map_df, strict_unique, merge_pc, merged, diag>>
cleanVars == <<df_raw, clean_pc, clean_out, clean_err>>
dedupeVars == <<canon, dd_in, dd_out, dd_calls>>

cliVars == <<master, csv_file, cli_args, cli_exit, cli_err, cli_clean, cli_prev,
             cli_latest, cli_appended, cli_runs>>

dispVars == <<label, disp_in, disp_out, disp_calls>>
pageVars == <<page_name, page_df, page_disp, disp_options, disp_selected, page_shown,
              page_pc>>

monthVars == <<month_path, month_now, month_out, month_pc>>

authVars == <<session, clock, run, auth_runs>>

vars == <<mergeVars, cleanVars, dedupeVars, cliVars, dispVars, pageVars, monthVars,
          authVars>>

-----------------------------------------------------------------------------
(* Bounds of the model *)

MaxFactRows == 1
MaxMapRows == 2

-----------------------------------------------------------------------------
(* Cells and strings *)

NaN == [k |-> "nan", s |-> <<>>]
PdNA == [k |-> "NA", s |-> <<>>]
Str(s) == [k |-> "str", s |-> s]

\* Series.isna() on an object column
IsNA(c) == c.k \in {"nan", "NA"}

LowerChars == <<"a","b","c","d","e","f","g","h","i","j","k","l","m",
                "n","o","p","q","r","s","t","u","v","w","x","y","z">>
UpperChars == <<"A","B","C","D","E","F","G","H","I","J","K","L","M",
                "N","O","P","Q","R","S","T","U","V","W","X","Y","Z">>

IsSpace(ch) == ch \in {" ", "\t", "\n"}

UpperChar(ch) ==
    IF \E i \in DOMAIN LowerChars : LowerChars[i] = ch
    THEN UpperChars[CHOOSE i \in DOMAIN LowerChars : LowerChars[i] = ch]
    ELSE ch

\* str.upper()
Upper(s) == [i \in DOMAIN s |-> UpperChar(s[i])]

LowerChar(ch) ==
    IF \E i \in DOMAIN UpperChars : UpperChars[i] = ch
    THEN LowerChars[CHOOSE i \in DOMAIN UpperChars : UpperChars[i] = ch]
    ELSE ch

\* str.lower()
Lower(s) == [i \in DOMAIN s |-> LowerChar(s[i])]

IsCased(ch) ==
    \E i \in DOMAIN LowerChars : LowerChars[i] = ch \/ UpperChars[i] = ch

RECURSIVE LStrip(_)
LStrip(s) == IF s # <<>> /\ IsSpace(Head(s)) THEN LStrip(Tail(s)) ELSE s

RECURSIVE RStrip(_)
RStrip(s) ==
    IF s # <<>> /\ IsSpace(s[Len(s)]) THEN RStrip(SubSeq(s, 1, Len(s) - 1)) ELSE s

\* str.strip()
Strip(s) == RStrip(LStrip(s))

\* Series.astype(str) on one cell: a missing cell becomes the text "nan"
\* (or "<NA>" for pd.NA), a string stays as it is.
AsTypeStr(c) ==
    CASE c.k = "nan" -> <<"n","a","n">>
      [] c.k = "NA"  -> <<"<","N","A",">">>
      [] OTHER       -> c.s

\* a faulty variant of CallerTable: the function works on the caller's object
CallerTableAliased(before, written) == written

\* df = df.copy() (memo_merge.py line 66, cleaner.py lines 48 and 82): what the
\* function then writes goes to its own copy, and the caller's table is after
\* the call what it was before
CallerTable(before, written) == before

-----------------------------------------------------------------------------
(* utils/memo_merge.py *)

DEFAULT_FILL_COLS ==
    <<"AE", "Buyer", "Department", "RA_Issued", "image_url", "Disposition",
      "Comments", "Date_RA_Issued">>

SeqToSet(q) == {q[i] : i \in DOMAIN q}

\* a faulty variant of _normalize_key: the strip left out
NormalizeKeyNoStrip(c) == Str(Upper(AsTypeStr(c)))

\* _normalize_key on one cell: astype(str), strip, upper
_normalize_key(c) == Str(Upper(Strip(AsTypeStr(c))))

\* _blank_to_na on one cell: astype(str), strip, then "" becomes pd.NA
_blank_to_na(c) ==
    LET t == Strip(AsTypeStr(c)) IN IF t = <<>> THEN PdNA ELSE Str(t)

\* a faulty variant of FillNa: the mapping's cell wins whenever it is present
FillNaOverwrite(c, other) == IF IsNA(other) THEN c ELSE other

\* Series.fillna(other) on one position: a missing cell takes the other
\* series' cell at that position (which may itself be missing)
FillNa(c, other) == IF IsNA(c) THEN other ELSE c

\* a faulty variant of NormalizeKeys: the key columns are compared as they came
NormalizeKeysUnchanged(t, key) == t

\* t[key] = _normalize_key(t[key])     (lines 67-70)
NormalizeKeys(t, key) ==
    [cols |-> t.cols,
     rows |-> [i \in DOMAIN t.rows |->
                 [c \in t.cols |->
                    IF c = key THEN _normalize_key(t.rows[i][c]) ELSE t.rows[i][c]]]]

\* map_df.duplicated(map_key, keep=False) is non-empty    (lines 74-75)
HasDupes(m, key) ==
    \E i, j \in DOMAIN m.rows : i # j /\ m.rows[i][key] = m.rows[j][key]

\* keep_cols = [map_key] + [c for c in fill_cols if c in map_df.columns]
KeepCols(m, key, fill_cols) == {key} \cup (SeqToSet(fill_cols) \cap m.cols)

\* the indices of a set of naturals in ascending order
RECURSIVE Ascending(_)
Ascending(S) ==
    IF S = {} THEN <<>>
    ELSE LET lo == CHOOSE x \in S : \A y \in S : x <= y
         IN <<lo>> \o Ascending(S \ {lo})

\* the mapping rows whose key equals the key of primary row i, in mapping order
Matches(d, m, key, i) ==
    Ascending({j \in DOMAIN m.rows : m.rows[j][key] = d.rows[i][key]})

\* df.merge(map_df, on=key, how="left"): the (primary row, mapping row) pairs
\* of the output in output order; mapping row 0 stands for "no match"
RECURSIVE LeftJoinFrom(_, _, _, _)
LeftJoinFrom(d, m, key, i) ==
    IF i > Len(d.rows) THEN <<>>
    ELSE LET js == Matches(d, m, key, i)
             here == IF js = <<>> THEN << <<i, 0>> >>
                     ELSE [n \in DOMAIN js |-> <<i, js[n]>>]
         IN here \o LeftJoinFrom(d, m, key, i + 1)

\* a faulty variant of LeftJoin: how="inner", primary rows without a match are dropped
SelectPairs(q) == SelectSeq(q, LAMBDA p : p[2] # 0)
InnerJoin(d, m, key) == SelectPairs(LeftJoinFrom(d, m, key, 1))

LeftJoin(d, m, key) == LeftJoinFrom(d, m, key, 1)

\* the cell of mapping column c that the join puts on an output row
MapCell(m, j, c) == IF j = 0 THEN NaN ELSE m.rows[j][c]

\* One column of one output row after the join and the fill loop (lines 90-103).
\* A fill column present in both tables arrives as c and c_map and is folded by
\* _blank_to_na(merged[c]).fillna(merged[c_map]); one present in the mapping only
\* arrives unsuffixed from the mapping; every other column is the primary's.
FilledCell(d, m, keep, fill_cols, i, j, c) ==
    IF c \in d.cols
    THEN IF c \in keep /\ c \in SeqToSet(fill_cols)
         THEN FillNa(_blank_to_na(d.rows[i][c]), MapCell(m, j, c))
         ELSE d.rows[i][c]
    ELSE MapCell(m, j, c)

\* the merged table: rows carry the output cells, src and mrow record which
\* primary row and which mapping row (0: none) the join took them from
MergedTable(d, m, key, fill_cols) ==
    LET keep == KeepCols(m, key, fill_cols)
        cols == d.cols \cup keep
        pairs == LeftJoin(d, m, key)
    IN [cols |-> cols,
        rows |-> [n \in DOMAIN pairs |->
                    [c \in cols |->
                       FilledCell(d, m, keep, fill_cols, pairs[n][1], pairs[n][2], c)]],
        src  |-> [n \in DOMAIN pairs |-> pairs[n][1]],
        mrow |-> [n \in DOMAIN pairs |-> pairs[n][2]]]

\* missing_mask (lines 109-118): the key is never NA after normalisation; the
\* probe column is AE, else Buyer, else the mask is all False
MissingMask(mt, n) ==
    IF "AE" \in mt.cols THEN IsNA(mt.rows[n]["AE"])
    ELSE IF "Buyer" \in mt.cols THEN IsNA(mt.rows[n]["Buyer"])
    ELSE FALSE

\* MergeDiagnostics (lines 136-144); the two top-50 tables are kept as the
\* sets of their keys
Diagnostics(d, m, mt, key) ==
    LET fact_styles == {mt.rows[n][key] : n \in DOMAIN mt.rows}
        map_styles == {m.rows[j][key] : j \in DOMAIN m.rows}
        missing == {n \in DOMAIN mt.rows : MissingMask(mt, n)}
    IN [mapping_rows |-> Len(m.rows),
        fact_rows |-> Len(d.rows),
        fact_distinct_styles |-> Cardinality(fact_styles),
        mapping_distinct_styles |-> Cardinality(map_styles),
        missing_style_rows |-> Cardinality(missing),
        missing_styles_top |-> {mt.rows[n][key] : n \in missing},
        unused_mapping_styles_top |-> map_styles \ fact_styles]

NoTable == [cols |-> {}, rows |-> <<>>, src |-> <<>>, mrow |-> <<>>]
NoDiag == [mapping_rows |-> 0, fact_rows |-> 0, fact_distinct_styles |-> 0,
           mapping_distinct_styles |-> 0, missing_style_rows |-> 0,
           missing_styles_top |-> {}, unused_mapping_styles_top |-> {}]

\* apply_memo_style_merge(df, merge_csv_path) with df_key = map_key = "Style"
\* and fill_cols = DEFAULT_FILL_COLS
apply_memo_style_merge ==
    /\ merge_pc = "call"
    /\ IF "Style" \notin df.cols \/ "Style" \notin map_df.cols
       THEN /\ merge_pc' = "KeyError"
            /\ UNCHANGED <<merged, diag>>
       ELSE LET d == NormalizeKeys(df, "Style")
                m == NormalizeKeys(map_df, "Style")
            IN IF strict_unique /\ HasDupes(m, "Style")
               THEN /\ merge_pc' = "ValueError"
                    /\ UNCHANGED <<merged, diag>>
               ELSE LET mt == MergedTable(d, m, "Style", DEFAULT_FILL_COLS)
                    IN /\ merge_pc' = "returned"
                       /\ merged' = mt
                       /\ diag' = Diagnostics(d, m, mt, "Style")
    /\ df' = IF "Style" \notin df.cols \/ "Style" \notin map_df.cols THEN df
             ELSE CallerTable(df, NormalizeKeys(df, "Style"))
    /\ UNCHANGED <<map_df, strict_unique>>
    /\ UNCHANGED <<cleanVars, dedupeVars, cliVars, dispVars, pageVars, monthVars, authVars>>

-----------------------------------------------------------------------------
(* The inputs of the merge *)

\* key cells: equal after trim + upper ("a", " A") or different ("b")
KeyCells == {Str(<<"a">>), Str(<<" ", "A">>), Str(<<"b">>)}

\* fill cells of the primary table: missing, empty, whitespace-only, populated,
\* populated with surrounding whitespace
FactCells == {NaN, Str(<<>>), Str(<<" ">>), Str(<<"x">>), Str(<<" ", "x">>)}

\* fill cells of the mapping table: pd.read_csv yields NaN for an empty field
MapCells == {NaN, Str(<<"y">>)}

Rows(cols, cells) ==
    {r \in [cols -> KeyCells \cup cells] :
        \A c \in cols : IF c = "Style" THEN r[c] \in KeyCells ELSE r[c] \in cells}

Tables(cols, cells, maxRows) ==
    {[cols |-> cols, rows |-> rs] :
        rs \in UNION {[1..n -> Rows(cols, cells)] : n \in 0..maxRows}}

\* the column sets of the two tables: the key, and one fill column or none
Schemas == {{"Style"}, {"Style", "AE"}, {"Style", "Buyer"}}

-----------------------------------------------------------------------------
(* signet/cleaner.py *)

\* RENAME_MAP in insertion order: the raw header and the canonical name
RENAME_MAP ==
    <<[raw |-> <<"L","O","G","O">>,
       name |-> "logo"],
      [raw |-> <<"S","K","U">>,
       name |-> "sku"],
      [raw |-> <<"D","E","S","C","R","I","P","T","I","O","N">>,
       name |-> "description"],
      [raw |-> <<"N","A","M","E">>,
       name |-> "name"],
      [raw |-> <<"S","T","Y","L","E">>,
       name |-> "style"],
      [raw |-> <<"C","O","S","T">>,
       name |-> "cost"],
      [raw |-> <<"R","E","T","A","I","L">>,
       name |-> "retail"],
      [raw |-> <<"M","E","R","C","H"," ","C","A","T","E","G","O","R","Y">>,
       name |-> "merch_category"],
      [raw |-> <<"O","W","N","E","R","S","H","I","P">>,
       name |-> "ownership"],
      [raw |-> <<"T","Y"," ","U","N","I","T","S">>,
       name |-> "total_monthly_sales"],
      [raw |-> <<"T","T","L"," ","O","H"," ","U">>,
       name |-> "total_on_hand_units"],
      [raw |-> <<"L","Y"," ","T","T","L"," ","O","H"," ","U">>,
       name |-> "ly_total_on_hand_units"],
      [raw |-> <<"S","t","o","r","e"," ","T","T","L"," ","U","n","i","t","s">>,
       name |-> "store_total_units"]>>

\* KEEP_COLS = list(RENAME_MAP.keys())
KEEP_COLS == [i \in DOMAIN RENAME_MAP |-> RENAME_MAP[i].raw]

\* the columns DTYPE_MAP casts to Int64, which are also columns_to_fill
INT_COLS == {"total_monthly_sales", "total_on_hand_units",
             "ly_total_on_hand_units", "store_total_units"}

TEXT_COLS == {"logo", "sku", "description", "name", "style", "merch_category",
              "ownership"}

\* Numbers.  A float or Int64 value is a record [k, n, d]: k = "fin" with the
\* exact value n/d in lowest terms (d > 0), "nan", "inf", "-inf", or "NA" for
\* the missing marker of the nullable Int64/Float64 arrays.
RECURSIVE GCD(_, _)
GCD(a, b) == IF b = 0 THEN a ELSE GCD(b, a % b)

Abs(x) == IF x < 0 THEN -x ELSE x

Fin(n, d) ==
    LET g == GCD(Abs(n), d) IN [k |-> "fin", n |-> n \div g, d |-> d \div g]

FNaN == [k |-> "nan", n |-> 0, d |-> 1]
FInf == [k |-> "inf", n |-> 0, d |-> 1]
FNegInf == [k |-> "-inf", n |-> 0, d |-> 1]
IntNA == [k |-> "NA", n |-> 0, d |-> 1]

\* float64 subtraction
FSub(a, b) ==
    CASE a.k = "nan" \/ b.k = "nan" -> FNaN
      [] a.k = "fin" /\ b.k = "fin" -> Fin(a.n * b.d - b.n * a.d, a.d * b.d)
      [] a.k = "fin" -> IF b.k = "inf" THEN FNegInf ELSE FInf
      [] b.k = "fin" -> a
      [] OTHER -> IF a.k = b.k THEN FNaN ELSE a

\* float64 division as numpy computes it: x/0 is an infinity, 0/0 is NaN, and
\* nothing is raised
FDiv(a, b) ==
    CASE a.k = "nan" \/ b.k = "nan" -> FNaN
      [] a.k = "fin" /\ b.k = "fin" ->
            IF b.n = 0
            THEN IF a.n = 0 THEN FNaN ELSE IF a.n > 0 THEN FInf ELSE FNegInf
            ELSE IF b.n > 0 THEN Fin(a.n * b.d, a.d * b.n)
                 ELSE Fin(-(a.n * b.d), a.d * (-b.n))
      [] a.k = "fin" -> Fin(0, 1)
      [] b.k = "fin" -> IF (b.n >= 0) = (a.k = "inf") THEN FInf ELSE FNegInf
      [] OTHER -> FNaN

Digits == <<"0", "1", "2", "3", "4", "5", "6", "7", "8", "9">>
IsDigit(ch) == \E i \in DOMAIN Digits : Digits[i] = ch
DigitVal(ch) == (CHOOSE i \in DOMAIN Digits : Digits[i] = ch) - 1

RECURSIVE Pow10(_)
Pow10(e) == IF e = 0 THEN 1 ELSE 10 * Pow10(e - 1)

\* the value of a sequence of digits read as a decimal integer
RECURSIVE DigitsVal(_)
DigitsVal(s) ==
    IF s = <<>> THEN 0
    ELSE 10 * DigitsVal(SubSeq(s, 1, Len(s) - 1)) + DigitVal(s[Len(s)])

\* the characters of s outside the set cs
RemoveChars(s, cs) == SelectSeq(s, LAMBDA ch : ch \notin cs)

\* digits with at most one decimal point, and their value
DecimalOk(u) ==
    LET digs == RemoveChars(u, {"."})
    IN /\ digs # <<>>
       /\ \A i \in DOMAIN digs : IsDigit(digs[i])
       /\ Cardinality({i \in DOMAIN u : u[i] = "."}) <= 1

DecimalVal(u) ==
    LET dots == {i \in DOMAIN u : u[i] = "."}
        scale == IF dots = {} THEN 0 ELSE Len(u) - (CHOOSE i \in dots : TRUE)
    IN Fin(DigitsVal(RemoveChars(u, {"."})), Pow10(scale))

\* the exponent of a number in scientific notation: an optional sign and
\* digits
ExpOk(x) ==
    LET y == IF x # <<>> /\ Head(x) \in {"+", "-"} THEN Tail(x) ELSE x
    IN y # <<>> /\ \A i \in DOMAIN y : IsDigit(y[i])

ExpVal(x) ==
    IF Head(x) = "-" THEN -DigitsVal(Tail(x))
    ELSE IF Head(x) = "+" THEN DigitsVal(Tail(x)) ELSE DigitsVal(x)

Scaled(v, e) ==
    IF e >= 0 THEN Fin(v.n * Pow10(e), v.d) ELSE Fin(v.n, v.d * Pow10(-e))

\* an unsigned number text: the spellings of infinity, a decimal, or a decimal
\* with an exponent
ParseUnsigned(u) ==
    LET es == {i \in DOMAIN u : u[i] \in {"e", "E"}}
    IN IF Lower(u) \in {<<"i", "n", "f">>, <<"i", "n", "f", "i", "n", "i", "t", "y">>} THEN FInf
       ELSE IF es = {} THEN (IF DecimalOk(u) THEN DecimalVal(u) ELSE FNaN)
       ELSE IF Cardinality(es) # 1 THEN FNaN
       ELSE LET at == CHOOSE i \in es : TRUE
                mant == SubSeq(u, 1, at - 1)
                ex == SubSeq(u, at + 1, Len(u))
            IN IF DecimalOk(mant) /\ ExpOk(ex)
               THEN Scaled(DecimalVal(mant), ExpVal(ex)) ELSE FNaN

\* pd.to_numeric(errors="coerce") on one text: an optional sign, then a
\* decimal, a decimal with an exponent or a spelling of infinity parse to their
\* value; anything else becomes NaN
ParseNumber(t) ==
    LET neg == t # <<>> /\ Head(t) = "-"
        u == IF t # <<>> /\ Head(t) \in {"-", "+"} THEN Tail(t) ELSE t
        v == ParseUnsigned(u)
    IN IF ~neg THEN v
       ELSE CASE v.k = "fin" -> Fin(-v.n, v.d)
              [] v.k = "inf" -> FNegInf
              [] OTHER -> v

\* pd.to_numeric(errors="coerce") on one cell
ToNumeric(c) == IF c.k # "str" THEN FNaN ELSE ParseNumber(c.s)

\* fillna(0) on one numeric value, outside the use_inf_as_na context: NaN and
\* the missing marker become 0, an infinity stays     (lines 75-76)
FillZero(v) == IF v.k \in {"nan", "NA"} THEN Fin(0, 1) ELSE v

\* a faulty variant of _normalize_money: a cell without a number counts as zero
MoneyMissingAsZero(c) ==
    LET t == Strip(RemoveChars(AsTypeStr(c), {"$", ","}))
    IN IF t \in {<<>>, <<"n", "a", "n">>, <<"N", "A">>, <<"N", "/", "A">>}
       THEN Fin(0, 1)
       ELSE FillZero(ParseNumber(t))

\* _normalize_money on one cell: astype(str), drop "$" and ",", strip, the
\* placeholders become None, then pd.to_numeric(errors="coerce")
_normalize_money(c) ==
    LET t == Strip(RemoveChars(AsTypeStr(c), {"$", ","}))
    IN IF t \in {<<>>, <<"n","a","n">>, <<"N","A">>, <<"N","/","A">>}
       THEN FNaN
       ELSE ParseNumber(t)


\* the characters in cs removed from both ends of s: str.strip(cs)
RECURSIVE LStripChars(_, _)
LStripChars(s, cs) ==
    IF s # <<>> /\ Head(s) \in cs THEN LStripChars(Tail(s), cs) ELSE s

RECURSIVE RStripChars(_, _)
RStripChars(s, cs) ==
    IF s # <<>> /\ s[Len(s)] \in cs
    THEN RStripChars(SubSeq(s, 1, Len(s) - 1), cs) ELSE s

StripChars(s, cs) == RStripChars(LStripChars(s, cs), cs)

\* a faulty variant of StripHeader: the header is used as it came
StripHeaderSkipped(columns) == columns

\* df.columns.str.strip()     (line 49)
StripHeader(columns) == [i \in DOMAIN columns |-> Strip(columns[i])]

\* df[KEEP_COLS].rename(columns=RENAME_MAP): the cell of a row under the
\* (stripped) header that RENAME_MAP renames to the canonical name   (line 52)
RawName(name) ==
    RENAME_MAP[CHOOSE i \in DOMAIN RENAME_MAP : RENAME_MAP[i].name = name].raw

Col(cols, row, name) == row[CHOOSE i \in DOMAIN cols : cols[i] = RawName(name)]

\* pd.to_numeric(errors="coerce").astype("Int64") on one cell: NaN becomes the
\* missing marker, an integral value stays
ToInt64(c) == LET v == ToNumeric(c) IN IF v.k = "nan" THEN IntNA ELSE v

\* astype("Int64") refuses a float column holding a non-integral value
\* ("cannot safely cast non-equivalent float64 to int64")
UnsafeInt64Cast(c) == LET v == ToNumeric(c) IN v.k = "fin" /\ v.d # 1

\* astype("string").str.strip() on one cell     (lines 59, 61)
ToText(c) == IF c.k # "str" THEN PdNA ELSE Str(Strip(c.s))

\* df['sku'].str.strip('.0') on one cell     (line 77)
StripSku(c) == IF c.k # "str" THEN c ELSE Str(StripChars(c.s, {".", "0"}))

\* a faulty variant of ZeroToNA: a zero denominator is left in place
ZeroKept(v) == v

\* Series.replace(0, pd.NA) on one Int64 value     (line 66)
ZeroToNA(v) == IF v.k = "fin" /\ v.n = 0 THEN IntNA ELSE v

\* Int64 / Int64, then astype(float): a missing operand gives NaN     (line 67)
MaskedDiv(a, b) == IF a.k = "NA" \/ b.k = "NA" THEN FNaN ELSE FDiv(a, b)

\* one row of clean()'s result     (lines 52-77).  The option
\* mode.use_inf_as_na changes what isna() answers inside the with block, not
\* the values the block stores.
CleanRow(cols, row) ==
    LET cost == _normalize_money(Col(cols, row, "cost"))
        retail == _normalize_money(Col(cols, row, "retail"))
        sales == ToInt64(Col(cols, row, "total_monthly_sales"))
        onhand == ToInt64(Col(cols, row, "total_on_hand_units"))
        sell == MaskedDiv(sales, ZeroToNA(onhand))
    IN [logo |-> ToText(Col(cols, row, "logo")),
        sku |-> StripSku(ToText(Col(cols, row, "sku"))),
        description |-> ToText(Col(cols, row, "description")),
        name |-> ToText(Col(cols, row, "name")),
        style |-> ToText(Col(cols, row, "style")),
        cost |-> cost,
        retail |-> retail,
        merch_category |-> ToText(Col(cols, row, "merch_category")),
        ownership |-> ToText(Col(cols, row, "ownership")),
        total_monthly_sales |-> FillZero(sales),
        total_on_hand_units |-> FillZero(onhand),
        ly_total_on_hand_units |->
            FillZero(ToInt64(Col(cols, row, "ly_total_on_hand_units"))),
        store_total_units |->
            FillZero(ToInt64(Col(cols, row, "store_total_units"))),
        margin_abs |-> FSub(retail, cost),
        margin_pct |-> FDiv(FSub(retail, cost), retail),
        sell_through |-> FillZero(sell)]

\* missing = [c for c in KEEP_COLS if c not in df.columns]     (line 50)
MissingCols(cols) ==
    SelectSeq(KEEP_COLS, LAMBDA c : \A i \in DOMAIN cols : cols[i] # c)

\* SignetCleaner.clean(df_raw)
clean ==
    /\ clean_pc = "call"
    /\ LET cols == StripHeader(df_raw.columns)
           missing == MissingCols(cols)
       IN IF missing # <<>>
          THEN /\ clean_pc' = "ValueError"
               /\ clean_err' = missing
               /\ UNCHANGED clean_out
          ELSE IF \E i \in DOMAIN df_raw.rows : \E c \in INT_COLS :
                     UnsafeInt64Cast(Col(cols, df_raw.rows[i], c))
          THEN /\ clean_pc' = "TypeError"
               /\ UNCHANGED <<clean_out, clean_err>>
          ELSE /\ clean_pc' = "returned"
               /\ clean_out' = [i \in DOMAIN df_raw.rows |->
                                  CleanRow(cols, df_raw.rows[i])]
               /\ UNCHANGED clean_err
    /\ df_raw' = CallerTable(df_raw, [columns |-> StripHeader(df_raw.columns),
                                      rows |-> df_raw.rows])
    /\ UNCHANGED <<mergeVars, dedupeVars, cliVars, dispVars, pageVars, monthVars, authVars>>

-----------------------------------------------------------------------------
(* The inputs of the cleaner *)

MaxRawRows == 1
MaxMissing == 2

\* raw cells: a missing cell, or the text of the cell
SkuCells == {Str(<<"1", "2", "3", ".", "0">>)}
CostCells == {NaN, Str(<<"$", "1", "0", ".", "0", "0">>), Str(<<"0">>)}
RetailCells == {Str(<<"$", "2", "5", ".", "0", "0">>), Str(<<"0">>), Str(<<"N", "/", "A">>), Str(<<"a", "b", "c">>)}
SalesCells == {Str(<<"5">>), Str(<<"0">>), Str(<<"x">>), Str(<<"2", ".", "5">>)}
OnHandCells == {NaN, Str(<<"2">>), Str(<<"0">>)}

\* a raw row by canonical column name
NamedRow(sku, cost, retail, sales, onhand) ==
    [logo |-> Str(<<" ", "K", "a", "y">>), sku |-> sku, description |-> Str(<<"r", "i", "n", "g">>),
     name |-> Str(<<"r", "1">>), style |-> Str(<<"s", "1", " ">>), cost |-> cost, retail |-> retail,
     merch_category |-> NaN, ownership |-> Str(<<"o", "w", "n">>),
     total_monthly_sales |-> sales, total_on_hand_units |-> onhand,
     ly_total_on_hand_units |-> Str(<<"3">>), store_total_units |-> NaN]

NamedRows ==
    {NamedRow(sku, cost, retail, sales, onhand) :
        sku \in SkuCells, cost \in CostCells, retail \in RetailCells,
        sales \in SalesCells, onhand \in OnHandCells}

SampleRows ==
    {NamedRow(Str(<<"1", "2", "3", ".", "0">>), Str(<<"$", "1", "0", ".", "0", "0">>), Str(<<"$", "2", "5", ".", "0", "0">>), sales, Str(<<"2">>)) :
        sales \in {Str(<<"5">>), Str(<<"2", ".", "5">>)}}

\* identifiers with zeros and dots at either end, in rows that differ in
\* nothing else
SkuSamples ==
    {Str(<<"1", "2", "3", ".", "0">>), Str(<<"1", "0", "0", ".", "0">>), Str(<<"0", "1", "2", "3">>), Str(<<"1", "2", "0">>), Str(<<"1", ".", "0", ".", "0">>), Str(<<" ", "7", "0", ".", "0", " ">>),
     Str(<<"0", ".", "0">>), Str(<<"A", "1", "0">>)}

SkuRows ==
    {NamedRow(sku, Str(<<"$", "1", "0", ".", "0", "0">>), Str(<<"$", "2", "5", ".", "0", "0">>), Str(<<"5">>), Str(<<"2">>)) : sku \in SkuSamples}

\* money cells as spreadsheets hold them: amounts with "$" and ",",
\* placeholders, and text that is not an amount
MoneySamples ==
    {NaN, Str(<<>>), Str(<<" ">>), Str(<<"N", "A">>), Str(<<"N", "/", "A">>), Str(<<"n", "a", "n">>), Str(<<"n", "/", "a">>), Str(<<"$">>),
     Str(<<"$", "1", ",", "2", "3", "4", ".", "5", "0">>), Str(<<" ", "$", "7", " ">>), Str(<<"-", "5">>), Str(<<"+", "5">>), Str(<<"(", "5", ")">>), Str(<<"1", "e", "3">>),
     Str(<<"2", ".", "5", "E", "-", "1">>), Str(<<"i", "n", "f">>), Str(<<"1", "2", ".", "3", ".", "4">>), Str(<<"T", "B", "D">>), Str(<<".", "5">>), Str(<<"0", ".", "0", "0">>),
     Str(<<"$", " ", "7">>), Str(<<"1", " ", "0">>)}

MoneyRows ==
    {NamedRow(Str(<<"1", "2", "3", ".", "0">>), cost, Str(<<"$", "2", "5", ".", "0", "0">>), Str(<<"5">>), Str(<<"2">>)) : cost \in MoneySamples}
    \cup {NamedRow(Str(<<"1", "2", "3", ".", "0">>), Str(<<"$", "1", "0", ".", "0", "0">>), retail, Str(<<"5">>), Str(<<"2">>)) : retail \in MoneySamples}

\* the cells of a named row laid out under a header; a column that is not a
\* required one holds a note
Layout(columns, r) ==
    [i \in DOMAIN columns |->
        IF \E e \in SeqToSet(RENAME_MAP) : e.raw = Strip(columns[i])
        THEN r[(CHOOSE e \in SeqToSet(RENAME_MAP) : e.raw = Strip(columns[i])).name]
        ELSE Str(<<"n", "o", "t", "e">>)]

RawTables(columns, rows, maxRows) ==
    LET laid == {Layout(columns, r) : r \in rows}
    IN {[columns |-> columns, rows |-> rs] :
           rs \in UNION {[1..n -> laid] : n \in 0..maxRows}}

Pad(h, kind) ==
    CASE kind = "lead"  -> <<" ">> \o h
      [] kind = "trail" -> h \o <<" ">>
      [] OTHER          -> h

\* every required column, as named or with padded names and an extra column
FullHeaders ==
    {KEEP_COLS,
     [i \in DOMAIN KEEP_COLS |-> Pad(Pad(KEEP_COLS[i], "lead"), "trail")]
        \o <<<<"N", "O", "T", "E", "S">>>>}

\* headers that lack 1..MaxMissing required columns; the first column that is
\* there may be padded
PartialHeaders ==
    {[i \in DOMAIN keep |-> IF i = 1 THEN Pad(KEEP_COLS[keep[i]], kind)
                            ELSE KEEP_COLS[keep[i]]] \o extra :
        keep \in {Ascending(DOMAIN KEEP_COLS \ absent) :
                    absent \in {a \in SUBSET DOMAIN KEEP_COLS :
                                  Cardinality(a) \in 1..MaxMissing}},
        kind \in {"none", "lead", "trail"},
        extra \in {<<>>, <<<<"N", "O", "T", "E", "S">>>>}}

-----------------------------------------------------------------------------
(* signet/cleaner.py: dedupe_within_month *)

\* the largest table given to dedupe_within_month, and the number of
\* successive calls made on it
MaxCanonRows == 3
MaxPasses == 2

\* d["sku"].fillna("") on one cell     (line 83)
SkuFilled(c) == IF IsNA(c) THEN Str(<<>>) ELSE c

\* d["sku_filled"].eq("").all()     (line 84); True for a table without rows
AllSkuBlank(t) == \A i \in DOMAIN t : SkuFilled(t[i].sku) = Str(<<>>)

\* a faulty variant of DedupeKey: the first row alone decides on the key
DedupeKeyFirstRow(t) ==
    IF t # <<>> /\ SkuFilled(t[1].sku) # Str(<<>>)
    THEN <<"report_month", "sku">>
    ELSE <<"report_month", "style", "name", "logo">>

\* key = [...] if not d["sku_filled"].eq("").all() else [...]     (line 84)
DedupeKey(t) ==
    IF ~AllSkuBlank(t) THEN <<"report_month", "sku">>
    ELSE <<"report_month", "style", "name", "logo">>

\* a faulty variant of KeyOf: subset= is not given, whole rows are compared
KeyOfWholeRow(r, key) == r

\* the values of a row in the key columns; drop_duplicates takes two missing
\* values for equal
KeyOf(r, key) == [n \in DOMAIN key |-> r[key[n]]]

\* a faulty variant of Kept: keep="first"
KeptFirst(t, key) ==
    {i \in DOMAIN t : \A j \in DOMAIN t : j < i => KeyOf(t[j], key) # KeyOf(t[i], key)}

\* drop_duplicates(subset=key, keep="last"): the positions that stay, those
\* with no later row of the same key     (line 85)
Kept(t, key) ==
    {i \in DOMAIN t : \A j \in DOMAIN t : j > i => KeyOf(t[j], key) # KeyOf(t[i], key)}

\* the rows of t at the positions idx, in the order of t
TakeRows(t, idx) == LET q == Ascending(idx) IN [n \in DOMAIN q |-> t[q[n]]]

\* dedupe_within_month(df) as a function of the table; the sku_filled helper
\* column is dropped again before the result is returned
DedupeTable(t) == TakeRows(t, Kept(t, DedupeKey(t)))

\* d["sku_filled"] = d["sku"].fillna("")     (line 83)
WithSkuFilled(t) ==
    [i \in DOMAIN t |-> [sku_filled |-> SkuFilled(t[i].sku)] @@ t[i]]

\* SignetCleaner.dedupe_within_month, called on the caller's table and then on
\* its own result
dedupe_within_month ==
    /\ dd_calls < MaxPasses
    /\ LET t == IF dd_calls = 0 THEN canon ELSE dd_out
       IN /\ dd_in' = CallerTable(t, WithSkuFilled(t))
          /\ dd_out' = DedupeTable(t)
          /\ canon' = IF dd_calls = 0 THEN CallerTable(t, WithSkuFilled(t)) ELSE canon
    /\ dd_calls' = dd_calls + 1
    /\ UNCHANGED <<mergeVars, cleanVars, cliVars, dispVars, pageVars, monthVars, authVars>>

-----------------------------------------------------------------------------
(* The inputs of dedupe_within_month *)

Months == {Str(<<"2", "0", "2", "4", "-", "0", "1">>), Str(<<"2", "0", "2", "4", "-", "0", "2">>)}
CanonSkus == {PdNA, Str(<<>>), Str(<<"1", "2", "3">>)}
CanonStyles == {Str(<<"s", "1">>), Str(<<"s", "2">>)}

\* a row of a cleaned table with its report_month
CanonRow(month, sku, style) ==
    [report_month |-> month, logo |-> Str(<<"K", "a", "y">>), sku |-> sku,
     description |-> Str(<<"r", "i", "n", "g">>), name |-> Str(<<"r", "1">>), style |-> style,
     cost |-> Fin(10, 1), retail |-> Fin(25, 1), merch_category |-> PdNA,
     ownership |-> Str(<<"o", "w", "n">>), total_monthly_sales |-> Fin(5, 1),
     total_on_hand_units |-> Fin(2, 1), ly_total_on_hand_units |-> Fin(3, 1),
     store_total_units |-> Fin(0, 1), margin_abs |-> Fin(15, 1),
     margin_pct |-> Fin(3, 5), sell_through |-> Fin(5, 2)]

CanonRows ==
    {CanonRow(m, sku, style) : m \in Months, sku \in CanonSkus, style \in CanonStyles}

CanonTables(maxRows) == UNION {[1..n -> CanonRows] : n \in 0..maxRows}

-----------------------------------------------------------------------------
(* signet/cli.py: main *)

\* the number of CLI runs, one after the other on the same files
MaxRuns == 3

NoFile == [exists |-> FALSE, rows |-> <<>>]
File(rows) == [exists |-> TRUE, rows |-> rows]
NoError == [type |-> "none", missing |-> <<>>]

\* sc.clean(raw) as a function of the raw table     (line 16)
CleanCall(raw) ==
    LET cols == StripHeader(raw.columns)
        missing == MissingCols(cols)
    IN IF missing # <<>>
       THEN [status |-> "ValueError", missing |-> missing, rows |-> <<>>]
       ELSE IF \E i \in DOMAIN raw.rows : \E c \in INT_COLS :
                  UnsafeInt64Cast(Col(cols, raw.rows[i], c))
       THEN [status |-> "TypeError", missing |-> <<>>, rows |-> <<>>]
       ELSE [status |-> "returned", missing |-> <<>>,
             rows |-> [i \in DOMAIN raw.rows |-> CleanRow(cols, raw.rows[i])]]

\* clean["report_month"] = month     (line 18)
WithMonth(rows, month) ==
    [i \in DOMAIN rows |-> [report_month |-> month] @@ rows[i]]

\* master[master["report_month"] != month]     (line 29)
OtherMonths(rows, month) == SelectSeq(rows, LAMBDA r : r.report_month # month)

\* a faulty variant of UpsertMaster: the period's rows are never removed
UpsertAppendOnly(old, table, month, no_replace) ==
    IF old.exists THEN File(old.rows \o table) ELSE File(table)

\* a faulty variant of UpsertMaster: the period's rows are always removed
UpsertReplaceOnly(old, table, month, no_replace) ==
    IF old.exists THEN File(OtherMonths(old.rows, month) \o table) ELSE File(table)

\* the master dataset that lines 26-34 write: the existing one, without the
\* period's rows unless --no-replace, followed by the run's table; the run's
\* table alone when there is no master yet
UpsertMaster(old, table, month, no_replace) ==
    IF old.exists
    THEN File((IF ~no_replace THEN OtherMonths(old.rows, month) ELSE old.rows) \o table)
    ELSE File(table)

\* a faulty variant of CsvAfter: the output file is written whatever clean() did
CsvWrittenAnyway(res, old, table) == File(table)

\* clean.to_csv(out_csv) is line 22, reached only when clean() returned at
\* line 16: the output file after the run
CsvAfter(res, old, table) == IF res.status = "returned" THEN File(table) ELSE old

\* the extract files that load_raw reads, by path
InputPaths == {"empty.csv", "one.csv", "two.csv", "dup.csv", "frac.csv", "nosku.csv"}

ExtractRow(columns, sku, sales) ==
    Layout(columns, NamedRow(sku, Str(<<"$", "1", "0", ".", "0", "0">>), Str(<<"$", "2", "5", ".", "0", "0">>), sales, Str(<<"2">>)))

Extract(path) ==
    LET a5 == ExtractRow(KEEP_COLS, Str(<<"1", "2", "3", ".", "0">>), Str(<<"5">>))
        a0 == ExtractRow(KEEP_COLS, Str(<<"1", "2", "3", ".", "0">>), Str(<<"0">>))
        n5 == ExtractRow(KEEP_COLS, NaN, Str(<<"5">>))
        fr == ExtractRow(KEEP_COLS, Str(<<"1", "2", "3", ".", "0">>), Str(<<"2", ".", "5">>))
        h2 == Tail(Tail(KEEP_COLS))
    IN CASE path = "empty.csv"  -> [columns |-> KEEP_COLS, rows |-> <<>>]
         [] path = "one.csv"    -> [columns |-> KEEP_COLS, rows |-> <<a5>>]
         [] path = "two.csv"    -> [columns |-> KEEP_COLS, rows |-> <<a5, n5>>]
         [] path = "dup.csv"    -> [columns |-> KEEP_COLS, rows |-> <<a5, a0>>]
         [] path = "frac.csv"   -> [columns |-> KEEP_COLS, rows |-> <<a5, fr>>]
         [] path = "nosku.csv" ->
               [columns |-> h2, rows |-> <<ExtractRow(h2, Str(<<"1", "2", "3", ".", "0">>), Str(<<"5">>))>>]

\* sc.clean(sc.load_raw(path)) for every extract file     (lines 15-16)
Cleaned == [path \in InputPaths |-> CleanCall(Extract(path))]

\* the table of a run after lines 17-19: the month column is set, then the
\* table is deduplicated
RunTable ==
    [path \in InputPaths, month \in Months |->
        DedupeTable(WithMonth(Cleaned[path].rows, month))]

\* one run of main(): --out-csv and --master-parquet name the same two files
\* in every run; month is args.report_month or the inferred period
main ==
    /\ cli_runs < MaxRuns
    /\ \E input_path \in InputPaths, month \in Months,
          master_parquet \in BOOLEAN, no_replace \in BOOLEAN :
          LET res == Cleaned[input_path]
              table == RunTable[input_path, month]
              ok == res.status = "returned"
          IN /\ cli_args' = [input_path |-> input_path, report_month |-> month,
                            master_parquet |-> master_parquet,
                            no_replace |-> no_replace]
             /\ cli_prev' = [master |-> master, csv_file |-> csv_file]
             /\ cli_exit' = IF ok THEN 0 ELSE 1
             /\ cli_err' = IF ok THEN NoError
                           ELSE [type |-> res.status, missing |-> res.missing]
             /\ cli_clean' = IF ok THEN table ELSE <<>>
             /\ csv_file' = CsvAfter(res, csv_file, table)
             /\ IF ok /\ master_parquet
                THEN /\ master' = UpsertMaster(master, table, month, no_replace)
                     /\ cli_latest' = [cli_latest EXCEPT ![month] = table]
                     /\ cli_appended' = (cli_appended \/ (no_replace /\ master.exists))
                ELSE UNCHANGED <<master, cli_latest, cli_appended>>
    /\ cli_runs' = cli_runs + 1
    /\ UNCHANGED <<mergeVars, cleanVars, dedupeVars, dispVars, pageVars, monthVars, authVars>>

-----------------------------------------------------------------------------
(* signet/cleaner.py: infer_report_month *)

\* os.path.basename: what follows the last "/"
RECURSIVE Basename(_)
Basename(p) ==
    IF \E i \in DOMAIN p : p[i] = "/"
    THEN Basename(SubSeq(p, (CHOOSE i \in DOMAIN p : p[i] = "/") + 1, Len(p)))
    ELSE p

\* 20\d{2} at position j
YearAt(s, j) ==
    /\ j >= 1 /\ j + 3 <= Len(s)
    /\ s[j] = "2" /\ s[j + 1] = "0" /\ IsDigit(s[j + 2]) /\ IsDigit(s[j + 3])

\* (20\d{2})[-_](0[1-9]|1[0-2]) at position i
NumericAt(s, i) ==
    /\ i + 6 <= Len(s)
    /\ YearAt(s, i)
    /\ s[i + 4] \in {"-", "_"}
    /\ \/ s[i + 5] = "0" /\ IsDigit(s[i + 6]) /\ s[i + 6] # "0"
       \/ s[i + 5] = "1" /\ s[i + 6] \in {"0", "1", "2"}

\* re.search: the leftmost position from i on where the pattern matches, 0
\* when there is none
RECURSIVE SearchNumeric(_, _)
SearchNumeric(s, i) ==
    IF i > Len(s) THEN 0
    ELSE IF NumericAt(s, i) THEN i ELSE SearchNumeric(s, i + 1)

\* the alternatives of the second pattern, in the order the pattern lists
\* them
MonthNames ==
    <<<<"j", "a", "n">>, <<"f", "e", "b">>, <<"m", "a", "r">>, <<"a", "p", "r">>, <<"m", "a", "y">>, <<"j", "u", "n">>, <<"j", "u", "l">>, <<"a", "u", "g">>, <<"s", "e", "p">>, <<"s", "e", "p", "t">>,
      <<"o", "c", "t">>, <<"n", "o", "v">>, <<"d", "e", "c">>>>

\* the dictionary of lines 38-39
MonthNumbers ==
    <<[key |-> <<"j", "a", "n">>, mm |-> <<"0", "1">>], [key |-> <<"f", "e", "b">>, mm |-> <<"0", "2">>],
      [key |-> <<"m", "a", "r">>, mm |-> <<"0", "3">>], [key |-> <<"a", "p", "r">>, mm |-> <<"0", "4">>],
      [key |-> <<"m", "a", "y">>, mm |-> <<"0", "5">>], [key |-> <<"j", "u", "n">>, mm |-> <<"0", "6">>],
      [key |-> <<"j", "u", "l">>, mm |-> <<"0", "7">>], [key |-> <<"a", "u", "g">>, mm |-> <<"0", "8">>],
      [key |-> <<"s", "e", "p">>, mm |-> <<"0", "9">>], [key |-> <<"s", "e", "p", "t">>, mm |-> <<"0", "9">>],
      [key |-> <<"o", "c", "t">>, mm |-> <<"1", "0">>], [key |-> <<"n", "o", "v">>, mm |-> <<"1", "1">>],
      [key |-> <<"d", "e", "c">>, mm |-> <<"1", "2">>]>>

\* [a-z] under re.I
IsLetter(ch) == IsCased(ch)

\* the number of letters from position j on
RECURSIVE LetterRun(_, _)
LetterRun(s, j) ==
    IF j <= Len(s) /\ IsLetter(s[j]) THEN 1 + LetterRun(s, j + 1) ELSE 0

\* [a-z]*[ _-]?(20\d{2}) from position j with [a-z]* taking n letters: the
\* position of the year, 0 when nothing matches; a greedy quantifier gives
\* back one character at a time
RECURSIVE YearAfter(_, _, _)
YearAfter(s, j, n) ==
    LET q == j + n
    IN IF q <= Len(s) /\ s[q] \in {" ", "_", "-"} /\ YearAt(s, q + 1) THEN q + 1
       ELSE IF YearAt(s, q) THEN q
       ELSE IF n = 0 THEN 0 ELSE YearAfter(s, j, n - 1)

\* the second pattern at position i, trying the alternatives from the k-th on
RECURSIVE NamedAt(_, _, _)
NamedAt(s, i, k) ==
    IF k > Len(MonthNames) THEN [ok |-> FALSE, name |-> <<>>, year |-> 0]
    ELSE LET a == MonthNames[k]
             j == i + Len(a)
             y == IF j - 1 <= Len(s) /\ Lower(SubSeq(s, i, j - 1)) = a
                  THEN YearAfter(s, j, LetterRun(s, j)) ELSE 0
         IN IF y # 0 THEN [ok |-> TRUE, name |-> SubSeq(s, i, j - 1), year |-> y]
            ELSE NamedAt(s, i, k + 1)

RECURSIVE SearchNamed(_, _)
SearchNamed(s, i) ==
    IF i > Len(s) THEN [ok |-> FALSE, name |-> <<>>, year |-> 0]
    ELSE IF NamedAt(s, i, 1).ok THEN NamedAt(s, i, 1) ELSE SearchNamed(s, i + 1)

\* {...}[m2.group(1)[:3].lower()]
MonthNumber(g) ==
    LET key == Lower(SubSeq(g, 1, 3))
    IN MonthNumbers[CHOOSE k \in DOMAIN MonthNumbers : MonthNumbers[k].key = key].mm

NumericResult(name, i) == SubSeq(name, i, i + 3) \o <<"-">> \o SubSeq(name, i + 5, i + 6)

NamedResult(name, m2) == SubSeq(name, m2.year, m2.year + 3) \o <<"-">> \o MonthNumber(m2.name)

\* a faulty variant of infer_report_month: the month name is looked for first
InferMonthNameFirst(path, today) ==
    LET name == Basename(path)
        m == SearchNumeric(name, 1)
        m2 == SearchNamed(name, 1)
    IN IF m2.ok THEN NamedResult(name, m2)
       ELSE IF m # 0 THEN NumericResult(name, m)
       ELSE today

\* infer_report_month(path_or_name), with what datetime.now() formats to
InferReportMonth(path, today) ==
    LET name == Basename(path)
        m == SearchNumeric(name, 1)
        m2 == SearchNamed(name, 1)
    IN IF m # 0 THEN NumericResult(name, m)
       ELSE IF m2.ok THEN NamedResult(name, m2)
       ELSE today

\* one call of infer_report_month
infer_report_month ==
    /\ month_pc = "call"
    /\ month_out' = InferReportMonth(month_path, month_now)
    /\ month_pc' = "returned"
    /\ UNCHANGED <<month_path, month_now>>
    /\ UNCHANGED <<mergeVars, cleanVars, dedupeVars, cliVars, dispVars, pageVars, authVars>>

\* the file names of the reports: a folder, a stem, a period written one way
\* or another, and an ending
MonthFolders == {<<>>, <<"i", "n", "/">>, <<"2", "0", "2", "3", "-", "0", "5", "/", "j", "a", "n", "2", "0", "2", "2", "/">>}
MonthStems == {<<"s", "i", "g", "n", "e", "t", "_">>, <<"S", "u", "m", "m", "a", "r", "y", " ">>, <<"F", "E", "B", "2", "0", "2", "3", "-">>}
MonthPeriods ==
    {<<>>, <<"2", "0", "2", "4", "-", "0", "3">>, <<"2", "0", "2", "4", "_", "1", "1">>, <<"2", "0", "2", "4", "-", "1", "3">>, <<"2", "0", "2", "4", "-", "0", "0">>, <<"2", "0", "2", "4", "/", "0", "3">>, <<"1", "9", "9", "9", "-", "0", "5">>, <<"2", "0", "2", "4", "5", "-", "0", "6">>,
     <<"S", "e", "p", "t", " ", "2", "0", "2", "4">>, <<"s", "e", "p", "t", "2", "0", "2", "4">>, <<"M", "A", "R", "C", "H", "_", "2", "0", "2", "5">>, <<"m", "a", "y", "-", "2", "0", "2", "4">>, <<"2", "0", "2", "4", "j", "a", "n">>, <<"d", "e", "c", " ", " ", "2", "0", "2", "4">>,
     <<"O", "c", "t", "2", "4">>, <<"2", "0", "2", "4">>, <<"j", "u", "n", "e", " ", "2", "4", " ", "2", "0", "2", "4", "-", "0", "7">>, <<"A", "u", "g", "_", "2", "0", "2", "4", "_", "2", "0", "2", "3", "-", "1", "2">>}
MonthEndings == {<<".", "c", "s", "v">>, <<"_", "v", "2", ".", "x", "l", "s", "x">>}

MonthPaths ==
    {f \o st \o pe \o e :
        f \in MonthFolders, st \in MonthStems, pe \in MonthPeriods, e \in MonthEndings}

\* the month the clock shows at the call
MonthsNow == {<<"2", "0", "2", "6", "-", "1", "1">>, <<"2", "0", "2", "7", "-", "0", "1">>}

-----------------------------------------------------------------------------
(* streamlit_auth.py and Home.py: the login gate, the session and the
   navigation *)

\* the number of runs of Home.py and the last instant of the clock
MaxAuthRuns == 3
MaxClock == 2

\* the tokens the token endpoint may hand out: the claims of the payload
\* ("" for a claim that is not there), whether the signature was made with
\* JWT_SECRET under HS256, and the instant the token expires
TokenClaims ==
    [T_admin  |-> [sub |-> "ann", role |-> "admin",  signed |-> TRUE,  exp |-> 2],
     T_sales  |-> [sub |-> "bob", role |-> "sales",  signed |-> TRUE,  exp |-> 1],
     T_viewer |-> [sub |-> "cat", role |-> "viewer", signed |-> TRUE,  exp |-> 3],
     T_norole |-> [sub |-> "dan", role |-> "",       signed |-> TRUE,  exp |-> 3],
     T_forged |-> [sub |-> "eve", role |-> "admin",  signed |-> FALSE, exp |-> 3],
     T_stale  |-> [sub |-> "fay", role |-> "sales",  signed |-> TRUE,  exp |-> 0]]

Tokens == DOMAIN TokenClaims

\* jwt.decode(token, SECRET_KEY, algorithms=[ALGORITHM]) returns the payload at
\* instant t; otherwise it raises a JWTError
Decodes(token, t) == TokenClaims[token].signed /\ t < TokenClaims[token].exp

\* st.session_state[key] = value
SetKey(s, key, value) ==
    [k \in DOMAIN s \cup {key} |-> IF k = key THEN value ELSE s[k]]

\* st.session_state.clear()
Cleared == [k \in {} |-> ""]

\* logout(): pop "token", "user" and "role"     (lines 41-43)
logout(s) == [k \in DOMAIN s \ {"token", "user", "role"} |-> s[k]]

\* what the form of login_form() received in this run: nothing, or a
\* submission and the answer of POST /token
Submissions ==
    {[submitted |-> FALSE, ok |-> FALSE, access_token |-> "T_admin"]}
    \cup {[submitted |-> TRUE, ok |-> FALSE, access_token |-> "T_admin"]}
    \cup {[submitted |-> TRUE, ok |-> TRUE, access_token |-> t] : t \in Tokens}

\* login_form(): the session it leaves and how it ends     (lines 11-26)
login_form(s, sub, t) ==
    IF ~sub.submitted THEN [session |-> s, out |-> "form"]
    ELSE IF ~sub.ok THEN [session |-> s, out |-> "Invalid credentials"]
    ELSE LET s1 == SetKey(s, "token", sub.access_token)
             payload == TokenClaims[sub.access_token]
         IN IF ~Decodes(sub.access_token, t)
            THEN [session |-> s1, out |-> "JWTError"]
            ELSE LET s2 == SetKey(s1, "user", payload.sub)
                 IN IF payload.role = ""
                    THEN [session |-> s2, out |-> "KeyError"]
                    ELSE [session |-> SetKey(s2, "role", payload.role),
                          out |-> "rerun"]

\* a faulty variant of require_login: a token in the session is enough
require_login_unverified(s, t) ==
    IF "token" \notin DOMAIN s THEN "login" ELSE "pass"

\* require_login(): which way it goes     (lines 28-39)
require_login(s, t) ==
    IF "token" \notin DOMAIN s THEN "login"
    ELSE IF ~Decodes(s["token"], t) THEN "expired"
    ELSE "pass"

\* the catalog of Home.py     (lines 27-38)
catalog ==
    <<[path |-> "pages/00_Signet_Sales.py", roles |-> <<"sales">>],
      [path |-> "pages/01_Customer_Sales_Analysis.py", roles |-> <<"admin">>],
      [path |-> "pages/05_Ecommerce_Dashboard.py", roles |-> <<"admin">>],
      [path |-> "pages/06_Ecomm_Analysis_SQL.py", roles |-> <<"admin">>],
      [path |-> "pages/10_Slow_Memo_Analysis.py", roles |-> <<"sales">>],
      [path |-> "pages/11_Inventory_Analysis.py", roles |-> <<"admin">>],
      [path |-> "pages/12_Testing.py", roles |-> <<"admin">>],
      [path |-> "pages/15_Stock_Aging.py", roles |-> <<"admin">>],
      [path |-> "pages/20_Image_Lookup.py", roles |-> <<>>],
      [path |-> "pages/21_Image_Upload_Search.py", roles |-> <<>>]>>

\* a faulty variant of allowed_pages: an admin is treated like any other role
allowed_pages_by_list(role) ==
    SelectSeq(catalog, LAMBDA pg :
        pg.roles = <<>> \/ (\E i \in DOMAIN pg.roles : pg.roles[i] = role))

\* allowed = [... if (not roles) or (role in roles) or (role == "admin")]
\* (lines 41-45)
allowed_pages(role) ==
    SelectSeq(catalog, LAMBDA pg :
        \/ pg.roles = <<>>
        \/ \E i \in DOMAIN pg.roles : pg.roles[i] = role
        \/ role = "admin")

\* what the page that nav.run() runs may store in the session
PageNums == {"1", "2"}

NoRun(s) ==
    [before |-> s, clock |-> 0, form |-> FALSE, out |-> "none", nav |-> <<>>,
     at_logout |-> s]

\* one run of Home.py: require_login(), the two reads of the session, the
\* navigation, the page, the Logout button
Home ==
    /\ auth_runs < MaxAuthRuns
    /\ auth_runs' = auth_runs + 1
    /\ UNCHANGED clock
    /\ \E sub \in Submissions, page_num \in PageNums \cup {""}, logout_clicked \in BOOLEAN :
          LET gate == require_login(session, clock)
              base == [NoRun(session) EXCEPT !.clock = clock]
          IN CASE gate = "login" ->
                    LET res == login_form(session, sub, clock)
                    IN /\ session' = res.session
                       /\ run' = [base EXCEPT !.form = TRUE, !.out = res.out]
               [] gate = "expired" ->
                    /\ session' = Cleared
                    /\ run' = [base EXCEPT !.out = "Session expired"]
               [] OTHER ->
                    IF ~({"user", "role"} \subseteq DOMAIN session)
                    THEN /\ session' = session
                         /\ run' = [base EXCEPT !.out = "KeyError in page"]
                    ELSE LET s1 == IF page_num = "" THEN session
                                   ELSE SetKey(session, "page_num", page_num)
                         IN /\ session' = IF logout_clicked THEN logout(s1) ELSE s1
                            /\ run' = [base EXCEPT
                                          !.out = IF logout_clicked THEN "logout" ELSE "page",
                                          !.nav = allowed_pages(session["role"]),
                                          !.at_logout = s1]
    /\ UNCHANGED <<mergeVars, cleanVars, dedupeVars, cliVars, dispVars, pageVars, monthVars>>

\* time passes between two runs
tick ==
    /\ auth_runs < MaxAuthRuns
    /\ clock < MaxClock
    /\ clock' = clock + 1
    /\ UNCHANGED <<session, run, auth_runs>>
    /\ UNCHANGED <<mergeVars, cleanVars, dedupeVars, cliVars, dispVars, pageVars, monthVars>>

-----------------------------------------------------------------------------
(* pages/10_Slow_Memo_Analysis.py and pages/2_Slow_Memo_Analysis.py: the
   disposition normalizer and the Disposition filter *)

\* the longest free-text label, the number of successive normalizer calls and
\* the largest table of the memo page
MaxLabelLen == 3
MaxNormCalls == 2
MaxPageRows == 2

\* str.replace(r"\s+", " ", regex=True): every run of whitespace becomes one
\* space
RECURSIVE CollapseSpaces(_)
CollapseSpaces(s) ==
    IF s = <<>> THEN <<>>
    ELSE IF IsSpace(Head(s)) THEN <<" ">> \o CollapseSpaces(LStrip(s))
    ELSE <<Head(s)>> \o CollapseSpaces(Tail(s))

\* a faulty variant of Title: the text is left as it is
TitleSkipped(s) == s

\* str.title(): a cased character is upper-cased when no cased character
\* precedes it, and lower-cased otherwise
Title(s) ==
    [i \in DOMAIN s |->
        IF i > 1 /\ IsCased(s[i - 1]) THEN LowerChar(s[i]) ELSE UpperChar(s[i])]

Unspecified == <<"U", "n", "s", "p", "e", "c", "i", "f", "i", "e", "d">>
PerpetualMemo == <<"P", "e", "r", "p", "e", "t", "u", "a", "l", " ", "M", "e", "m", "o">>
HoldOnMemoMonitor == <<"H", "o", "l", "d", " ", "O", "n", " ", "M", "e", "m", "o", "/", "M", "o", "n", "i", "t", "o", "r">>
RTVCloseout == <<"R", "T", "V", " ", "-", " ", "C", "l", "o", "s", "e", "o", "u", "t">>
RTVMelt == <<"R", "T", "V", " ", "-", " ", "M", "e", "l", "t">>

\* the canon dict of pages/2: it has no "hold on memo / monitor"
canon_legacy ==
    <<[key |-> <<>>, label |-> Unspecified],
      [key |-> <<"u", "n", "s", "p", "e", "c", "i", "f", "i", "e", "d">>, label |-> Unspecified],
      [key |-> <<"p", "e", "r", "p", "e", "t", "u", "a", "l", " ", "m", "e", "m", "o">>, label |-> PerpetualMemo],
      [key |-> <<"h", "o", "l", "d", " ", "o", "n", " ", "m", "e", "m", "o", "/", "m", "o", "n", "i", "t", "o", "r">>, label |-> HoldOnMemoMonitor],
      [key |-> <<"r", "t", "v", " ", "c", "l", "o", "s", "e", "o", "u", "t">>, label |-> RTVCloseout],
      [key |-> <<"r", "t", "v", " ", "-", " ", "c", "l", "o", "s", "e", "o", "u", "t">>, label |-> RTVCloseout],
      [key |-> <<"r", "t", "v", "-", " ", "c", "l", "o", "s", "e", "o", "u", "t">>, label |-> RTVCloseout],
      [key |-> <<"r", "t", "v", " ", "m", "e", "l", "t">>, label |-> RTVMelt],
      [key |-> <<"r", "t", "v", " ", "-", " ", "m", "e", "l", "t">>, label |-> RTVMelt],
      [key |-> <<"r", "t", "v", "-", " ", "m", "e", "l", "t">>, label |-> RTVMelt]>>

\* a faulty variant of canon_map: the lower-cased form of a canonical label is
\* not a key
canon_without_own_form ==
    <<[key |-> <<>>, label |-> Unspecified],
      [key |-> <<"u", "n", "s", "p", "e", "c", "i", "f", "i", "e", "d">>, label |-> Unspecified],
      [key |-> <<"p", "e", "r", "p", "e", "t", "u", "a", "l", " ", "m", "e", "m", "o">>, label |-> PerpetualMemo],
      [key |-> <<"h", "o", "l", "d", " ", "o", "n", " ", "m", "e", "m", "o", "/", "m", "o", "n", "i", "t", "o", "r">>, label |-> HoldOnMemoMonitor],
      [key |-> <<"h", "o", "l", "d", " ", "o", "n", " ", "m", "e", "m", "o", " ", "/", " ", "m", "o", "n", "i", "t", "o", "r">>, label |-> HoldOnMemoMonitor],
      [key |-> <<"r", "t", "v", " ", "c", "l", "o", "s", "e", "o", "u", "t">>, label |-> RTVCloseout],
      [key |-> <<"r", "t", "v", "-", " ", "c", "l", "o", "s", "e", "o", "u", "t">>, label |-> RTVCloseout],
      [key |-> <<"r", "t", "v", " ", "m", "e", "l", "t">>, label |-> RTVMelt],
      [key |-> <<"r", "t", "v", " ", "-", " ", "m", "e", "l", "t">>, label |-> RTVMelt],
      [key |-> <<"r", "t", "v", "-", " ", "m", "e", "l", "t">>, label |-> RTVMelt]>>

\* the canon dict of pages/10
canon_map ==
    <<[key |-> <<>>, label |-> Unspecified],
      [key |-> <<"u", "n", "s", "p", "e", "c", "i", "f", "i", "e", "d">>, label |-> Unspecified],
      [key |-> <<"p", "e", "r", "p", "e", "t", "u", "a", "l", " ", "m", "e", "m", "o">>, label |-> PerpetualMemo],
      [key |-> <<"h", "o", "l", "d", " ", "o", "n", " ", "m", "e", "m", "o", "/", "m", "o", "n", "i", "t", "o", "r">>, label |-> HoldOnMemoMonitor],
      [key |-> <<"h", "o", "l", "d", " ", "o", "n", " ", "m", "e", "m", "o", " ", "/", " ", "m", "o", "n", "i", "t", "o", "r">>, label |-> HoldOnMemoMonitor],
      [key |-> <<"r", "t", "v", " ", "c", "l", "o", "s", "e", "o", "u", "t">>, label |-> RTVCloseout],
      [key |-> <<"r", "t", "v", " ", "-", " ", "c", "l", "o", "s", "e", "o", "u", "t">>, label |-> RTVCloseout],
      [key |-> <<"r", "t", "v", "-", " ", "c", "l", "o", "s", "e", "o", "u", "t">>, label |-> RTVCloseout],
      [key |-> <<"r", "t", "v", " ", "m", "e", "l", "t">>, label |-> RTVMelt],
      [key |-> <<"r", "t", "v", " ", "-", " ", "m", "e", "l", "t">>, label |-> RTVMelt],
      [key |-> <<"r", "t", "v", "-", " ", "m", "e", "l", "t">>, label |-> RTVMelt]>>

allowed == {Unspecified, PerpetualMemo, HoldOnMemoMonitor, RTVCloseout, RTVMelt}

\* Series.replace(canon) on one value: a value that is a key becomes its label
ReplaceCanon(cm, x) ==
    IF \E i \in DOMAIN cm : cm[i].key = x
    THEN cm[CHOOSE i \in DOMAIN cm : cm[i].key = x].label
    ELSE x

\* a faulty variant of Reduce: fillna("") is left out
ReduceNoFillNa(c) == Lower(CollapseSpaces(Strip(AsTypeStr(c))))

\* a faulty variant of Reduce: whitespace runs are left as they are
ReduceNoCollapse(c) ==
    Lower(Strip(AsTypeStr(IF IsNA(c) THEN Str(<<>>) ELSE c)))

\* s.fillna("").astype(str).str.strip().str.replace(r"\s+", " ").str.lower()
\* on one cell
Reduce(c) ==
    Lower(CollapseSpaces(Strip(AsTypeStr(IF IsNA(c) THEN Str(<<>>) ELSE c))))

\* the normalizer with the dict cm on one cell: reduce, replace, then the
\* lambda that keeps an allowed label, title-cases any other text and turns the
\* empty text into "Unspecified"
NormalizeLabel(cm, c) ==
    LET x == ReplaceCanon(cm, Reduce(c))
    IN Str(IF x \in allowed THEN x
           ELSE IF x # <<>> THEN Title(x) ELSE Unspecified)

\* normalize_disposition(s) of pages/10
normalize_disposition(s) == [i \in DOMAIN s |-> NormalizeLabel(canon_map, s[i])]

\* _normalize_disposition(s) of pages/2
_normalize_disposition(s) == [i \in DOMAIN s |-> NormalizeLabel(canon_legacy, s[i])]

\* the canon_map dict of the Dispositions Analytics section of pages/2: the
\* label of "hold on memo/monitor" is written with a small "on"
canon_analytics ==
    <<[key |-> <<>>, label |-> Unspecified],
      [key |-> <<"u", "n", "s", "p", "e", "c", "i", "f", "i", "e", "d">>, label |-> Unspecified],
      [key |-> <<"p", "e", "r", "p", "e", "t", "u", "a", "l", " ", "m", "e", "m", "o">>, label |-> PerpetualMemo],
      [key |-> <<"h", "o", "l", "d", " ", "o", "n", " ", "m", "e", "m", "o", "/", "m", "o", "n", "i", "t", "o", "r">>, label |-> <<"H", "o", "l", "d", " ", "o", "n", " ", "M", "e", "m", "o", "/", "M", "o", "n", "i", "t", "o", "r">>],
      [key |-> <<"r", "t", "v", " ", "c", "l", "o", "s", "e", "o", "u", "t">>, label |-> RTVCloseout],
      [key |-> <<"r", "t", "v", " ", "-", " ", "c", "l", "o", "s", "e", "o", "u", "t">>, label |-> RTVCloseout],
      [key |-> <<"r", "t", "v", "-", " ", "c", "l", "o", "s", "e", "o", "u", "t">>, label |-> RTVCloseout],
      [key |-> <<"r", "t", "v", " ", "m", "e", "l", "t">>, label |-> RTVMelt],
      [key |-> <<"r", "t", "v", "-", " ", "m", "e", "l", "t">>, label |-> RTVMelt],
      [key |-> <<"r", "t", "v", " ", "-", " ", "m", "e", "l", "t">>, label |-> RTVMelt]>>

\* the inline normalization of the Dispositions Analytics section on one cell:
\* reduce, replace, then the lambda that title-cases every value but the two
\* RTV labels and "Unspecified"     (pages/2, lines 182-208)
AnalyticsLabel(c) ==
    LET x == ReplaceCanon(canon_analytics, Reduce(c))
    IN Str(IF x = <<"r", "t", "v", " ", "-", " ", "c", "l", "o", "s", "e", "o", "u", "t">> THEN RTVCloseout
           ELSE IF x = <<"r", "t", "v", " ", "-", " ", "m", "e", "l", "t">> THEN RTVMelt
           ELSE IF x \notin {RTVCloseout, RTVMelt, Unspecified} THEN Title(x)
           ELSE x)

\* df_analytics["_Disposition"] of pages/2
analytics_disposition(s) == [i \in DOMAIN s |-> AnalyticsLabel(s[i])]

\* normalize_disposition called on the caller's Series and then on its own
\* result
normalize_call ==
    /\ disp_calls < MaxNormCalls
    /\ LET s == IF disp_calls = 0 THEN label ELSE disp_out
       IN /\ disp_in' = s
          /\ disp_out' = normalize_disposition(s)
    /\ disp_calls' = disp_calls + 1
    /\ UNCHANGED <<label, mergeVars, cleanVars, dedupeVars, cliVars, pageVars, monthVars, authVars>>

\* the characters in the order Python compares them
CharOrder ==
    <<"\t", "\n", " ", "$", "'", "-", ".", "/",
      "0", "1", "2", "3", "4", "5", "6", "7", "8", "9", "<", ">">>
    \o UpperChars \o <<"_">> \o LowerChars

Ord(ch) == CHOOSE i \in DOMAIN CharOrder : CharOrder[i] = ch

\* a <= b for two Python strings
RECURSIVE StrLE(_, _)
StrLE(a, b) ==
    IF a = <<>> THEN TRUE
    ELSE IF b = <<>> THEN FALSE
    ELSE IF Head(a) = Head(b) THEN StrLE(Tail(a), Tail(b))
    ELSE Ord(Head(a)) < Ord(Head(b))

\* sorted(...) of a set of string cells
RECURSIVE Sorted(_)
Sorted(S) ==
    IF S = {} THEN <<>>
    ELSE LET lo == CHOOSE x \in S : \A y \in S : StrLE(x.s, y.s)
         IN <<lo>> \o Sorted(S \ {lo})

All == Str(<<"A", "l", "l">>)

\* ["All"] + sorted(df["_Disp"].dropna().unique().tolist())
DispOptions(disp) == <<All>> \o Sorted({disp[i] : i \in {j \in DOMAIN disp : ~IsNA(disp[j])}})

\* a faulty variant of ShownRows: the raw Disposition column is tested
ShownRowsRaw(raw, disp, selected) ==
    IF selected # {} /\ All \notin selected
    THEN {i \in DOMAIN raw : raw[i] \in selected}
    ELSE DOMAIN raw

\* if disp_selected and "All" not in disp_selected:
\*     df = df[df["_Disp"].isin(disp_selected)]
ShownRows(raw, disp, selected) ==
    IF selected # {} /\ All \notin selected
    THEN {i \in DOMAIN disp : disp[i] \in selected}
    ELSE DOMAIN raw

\* one run of the page script over the Disposition filter, with the options
\* the user has selected in the control (["All"] by default)
disposition_filter ==
    /\ page_pc = "start"
    /\ page_pc' = "done"
    /\ IF page_df.has_disposition
       THEN LET disp == IF page_name = "current"
                        THEN normalize_disposition(page_df.Disposition)
                        ELSE _normalize_disposition(page_df.Disposition)
                options == DispOptions(disp)
            IN /\ page_disp' = disp
               /\ disp_options' = options
               /\ \E selected \in SUBSET SeqToSet(options) :
                     /\ disp_selected' = selected
                     /\ page_shown' = ShownRows(page_df.Disposition, disp, selected)
       ELSE /\ page_shown' = DOMAIN page_df.Disposition
            /\ UNCHANGED <<page_disp, disp_options, disp_selected>>
    /\ UNCHANGED <<page_name, page_df, mergeVars, cleanVars, dedupeVars, cliVars, dispVars, monthVars, authVars>>

-----------------------------------------------------------------------------
(* The inputs of the normalizer and of the memo page *)

BaseLabels ==
    {<<>>, <<"u", "n", "s", "p", "e", "c", "i", "f", "i", "e", "d">>, <<"p", "e", "r", "p", "e", "t", "u", "a", "l", " ", "m", "e", "m", "o">>, <<"h", "o", "l", "d", " ", "o", "n", " ", "m", "e", "m", "o", "/", "m", "o", "n", "i", "t", "o", "r">>,
     <<"h", "o", "l", "d", " ", "o", "n", " ", "m", "e", "m", "o", " ", "/", " ", "m", "o", "n", "i", "t", "o", "r">>, <<"r", "t", "v", " ", "c", "l", "o", "s", "e", "o", "u", "t">>, <<"r", "t", "v", " ", "-", " ", "c", "l", "o", "s", "e", "o", "u", "t">>, <<"r", "t", "v", "-", " ", "c", "l", "o", "s", "e", "o", "u", "t">>,
     <<"r", "t", "v", " ", "m", "e", "l", "t">>, <<"r", "t", "v", " ", "-", " ", "m", "e", "l", "t">>, <<"r", "t", "v", "-", " ", "m", "e", "l", "t">>, <<"r", "t", "v", "-", "c", "l", "o", "s", "e", "o", "u", "t">>, <<"d", "a", "m", "a", "g", "e", "d">>,
     <<"o", "n", " ", "h", "o", "l", "d">>, <<"a", "l", "l">>}

Recase(s, kind) ==
    CASE kind = "upper" -> Upper(s)
      [] kind = "title" -> Title(s)
      [] OTHER          -> s

\* every space of s written as the whitespace sp
RECURSIVE Respace(_, _)
Respace(s, sp) ==
    IF s = <<>> THEN <<>>
    ELSE (IF Head(s) = " " THEN sp ELSE <<Head(s)>>) \o Respace(Tail(s), sp)

\* the spellings of the base labels: letter case, whitespace runs, padding
Spellings ==
    {pad[1] \o Respace(Recase(b, kind), sp) \o pad[2] :
        b \in BaseLabels, kind \in {"lower", "upper", "title"},
        sp \in {<<" ">>, <<" ", " ">>, <<"\t">>},
        pad \in {<<<<>>, <<>>>>, <<<<" ">>, <<" ", "\n">>>>}}

LabelChars == {"a", "B", " ", "-", "1"}

\* every text of at most maxLen characters
ShortTexts(maxLen) == UNION {[1..n -> LabelChars] : n \in 0..maxLen}

\* the raw cells of a Disposition column
LabelCells(maxLen) ==
    {NaN, PdNA} \cup {Str(t) : t \in Spellings \cup allowed \cup ShortTexts(maxLen)}

PageCells ==
    {NaN, Str(<<"R", "T", "V", " ", " ", "C", "l", "o", "s", "e", "o", "u", "t">>), Str(<<"r", "t", "v", " ", "-", " ", "c", "l", "o", "s", "e", "o", "u", "t">>), Str(<<"h", "o", "l", "d", " ", "o", "n", " ", "m", "e", "m", "o", " ", "/", " ", "m", "o", "n", "i", "t", "o", "r">>),
     Str(<<"H", "o", "l", "d", " ", "O", "n", " ", "M", "e", "m", "o", "/", "M", "o", "n", "i", "t", "o", "r">>), Str(<<"a", "l", "l">>), Str(<<"D", "a", "m", "a", "g", "e", "d">>)}

PageTables(maxRows) ==
    {[has_disposition |-> h, Disposition |-> col] :
        h \in BOOLEAN, col \in UNION {[1..n -> PageCells] : n \in 0..maxRows}}

-----------------------------------------------------------------------------
(* Specifications: one per component; a component that is not exercised is
   parked *)

AuthIdle ==
    /\ session = Cleared
    /\ clock = 0
    /\ run = NoRun(Cleared)
    /\ auth_runs = MaxAuthRuns

MonthIdle ==
    /\ month_path = <<>>
    /\ month_now = <<>>
    /\ month_out = <<>>
    /\ month_pc = "returned"

MergeIdle ==
    /\ df = [cols |-> {"Style"}, rows |-> <<>>]
    /\ map_df = [cols |-> {"Style"}, rows |-> <<>>]
    /\ strict_unique = TRUE
    /\ merge_pc = "idle"
    /\ merged = NoTable
    /\ diag = NoDiag

CleanIdle ==
    /\ df_raw = [columns |-> <<>>, rows |-> <<>>]
    /\ clean_pc = "idle"
    /\ clean_out = <<>>
    /\ clean_err = <<>>

\* no table and no call left
DedupeIdle ==
    /\ canon = <<>>
    /\ dd_in = <<>>
    /\ dd_out = <<>>
    /\ dd_calls = MaxPasses

CliIdle ==
    /\ master = NoFile
    /\ csv_file = NoFile
    /\ cli_args = [input_path |-> "", report_month |-> Str(<<>>),
                   master_parquet |-> FALSE, no_replace |-> FALSE]
    /\ cli_exit = 0
    /\ cli_err = NoError
    /\ cli_clean = <<>>
    /\ cli_prev = [master |-> NoFile, csv_file |-> NoFile]
    /\ cli_latest = [m \in Months |-> <<>>]
    /\ cli_appended = FALSE
    /\ cli_runs = 0

DispIdle ==
    /\ label = <<>>
    /\ disp_in = <<>>
    /\ disp_out = <<>>
    /\ disp_calls = 0

PageIdle ==
    /\ page_name = "current"
    /\ page_df = [has_disposition |-> FALSE, Disposition |-> <<>>]
    /\ page_disp = <<>>
    /\ disp_options = <<>>
    /\ disp_selected = {}
    /\ page_shown = {}
    /\ page_pc = "idle"

\* a Series of one raw label
InitDisp ==
    /\ \E c \in LabelCells(MaxLabelLen) : label = <<c>>
    /\ disp_in = <<>>
    /\ disp_out = <<>>
    /\ disp_calls = 0
    /\ PageIdle
    /\ MonthIdle
    /\ AuthIdle
    /\ MergeIdle
    /\ CleanIdle
    /\ DedupeIdle
    /\ CliIdle

NextDisp == normalize_call

SpecDisp == InitDisp /\ [][NextDisp]_vars

\* a memo page with its table loaded, before the Disposition filter
InitPage ==
    /\ page_name \in {"current", "legacy"}
    /\ page_df \in PageTables(MaxPageRows)
    /\ page_disp = <<>>
    /\ disp_options = <<>>
    /\ disp_selected = {}
    /\ page_shown = {}
    /\ page_pc = "start"
    /\ DispIdle
    /\ MergeIdle
    /\ CleanIdle
    /\ DedupeIdle
    /\ CliIdle
    /\ MonthIdle
    /\ AuthIdle

NextPage == disposition_filter

SpecPage == InitPage /\ [][NextPage]_vars

\* no run yet: neither the output file nor the master dataset exists
InitCli ==
    /\ CliIdle
    /\ MergeIdle
    /\ CleanIdle
    /\ DedupeIdle
    /\ DispIdle
    /\ PageIdle
    /\ MonthIdle
    /\ AuthIdle

NextCli == main

SpecCli == InitCli /\ [][NextCli]_vars

InitDedupe ==
    /\ canon \in CanonTables(MaxCanonRows)
    /\ dd_in = <<>>
    /\ dd_out = <<>>
    /\ dd_calls = 0
    /\ MergeIdle
    /\ CleanIdle
    /\ CliIdle
    /\ DispIdle
    /\ PageIdle
    /\ MonthIdle
    /\ AuthIdle

NextDedupe == dedupe_within_month

SpecDedupe == InitDedupe /\ [][NextDedupe]_vars

InitMerge ==
    /\ \E dc \in Schemas, mc \in Schemas :
          /\ (dc \cup mc) \in Schemas
          /\ df \in Tables(dc, FactCells, MaxFactRows)
          /\ map_df \in Tables(mc, MapCells, MaxMapRows)
    /\ strict_unique \in BOOLEAN
    /\ merge_pc = "call"
    /\ merged = NoTable
    /\ diag = NoDiag
    /\ CleanIdle
    /\ DedupeIdle
    /\ CliIdle
    /\ DispIdle
    /\ PageIdle
    /\ MonthIdle
    /\ AuthIdle

NextMerge == apply_memo_style_merge

SpecMerge == InitMerge /\ [][NextMerge]_vars

InitClean ==
    /\ \/ \E h \in FullHeaders : df_raw \in RawTables(h, NamedRows, MaxRawRows)
       \/ \E h \in PartialHeaders : df_raw \in RawTables(h, SampleRows, 1)
       \/ df_raw \in RawTables(KEEP_COLS, SkuRows, 1)
       \/ df_raw \in RawTables(KEEP_COLS, MoneyRows, 1)
    /\ clean_pc = "call"
    /\ clean_out = <<>>
    /\ clean_err = <<>>
    /\ MergeIdle
    /\ DedupeIdle
    /\ CliIdle
    /\ DispIdle
    /\ PageIdle
    /\ MonthIdle
    /\ AuthIdle

NextClean == clean

SpecClean == InitClean /\ [][NextClean]_vars

\* the three table functions of the core, each called on its own inputs
\* infer_report_month alone
InitMonth ==
    /\ month_path \in MonthPaths
    /\ month_now \in MonthsNow
    /\ month_out = <<>>
    /\ month_pc = "call"
    /\ MergeIdle
    /\ CleanIdle
    /\ DedupeIdle
    /\ CliIdle
    /\ DispIdle
    /\ PageIdle
    /\ AuthIdle

NextMonth == infer_report_month

SpecMonth == InitMonth /\ [][NextMonth]_vars

\* the app: a browser session from its first run on
InitAuth ==
    /\ session \in {Cleared} \cup {SetKey(Cleared, "page_num", n) : n \in PageNums}
    /\ clock = 0
    /\ run = NoRun(session)
    /\ auth_runs = 0
    /\ MergeIdle
    /\ CleanIdle
    /\ DedupeIdle
    /\ CliIdle
    /\ DispIdle
    /\ PageIdle
    /\ MonthIdle

NextAuth == Home \/ tick

SpecAuth == InitAuth /\ [][NextAuth]_vars

InitCore == InitMerge \/ InitClean \/ InitDedupe

NextCore == apply_memo_style_merge \/ clean \/ dedupe_within_month

SpecCore == InitCore /\ [][NextCore]_vars

-----------------------------------------------------------------------------
(* Claims about the merge, checked under SpecMerge *)

FillCols == SeqToSet(DEFAULT_FILL_COLS)

\* a blank or missing cell: NaN, pd.NA, the empty or a whitespace-only string
Blank(c) == c.k # "str" \/ Strip(c.s) = <<>>

\* the key of a row as the claims compare it: trimmed and upper-cased
TrimUpper(c) == Upper(Strip(c.s))

\* the cell of column c that output row n had in the primary table
Before(n, c) == df.rows[merged.src[n]][c]

\* the mapping table has at most one row per trimmed, upper-cased key
UniqueMapping ==
    \A i, j \in DOMAIN map_df.rows :
        TrimUpper(map_df.rows[i]["Style"]) = TrimUpper(map_df.rows[j]["Style"]) => i = j

C2_BlankFilledFromMapping ==
    merge_pc = "returned" =>
        \A n \in DOMAIN merged.rows : \A c \in FillCols \cap df.cols \cap map_df.cols :
            (Blank(Before(n, c)) /\ merged.mrow[n] # 0) =>
                merged.rows[n][c] = map_df.rows[merged.mrow[n]][c]

\* C3: with strict_unique on, a mapping with two rows of one trimmed,
\* upper-cased key makes the call fail with the ValueError, without any output
\* table or diagnostics.
C3_DuplicateKeysRejected ==
    (merge_pc # "call" /\ strict_unique /\ ~UniqueMapping) =>
        /\ merge_pc = "ValueError"
        /\ merged = NoTable
        /\ diag = NoDiag

\* the call failed on two mapping rows whose raw keys differ in case and spaces
C3_Witness ==
    /\ merge_pc = "ValueError"
    /\ \E i, j \in DOMAIN map_df.rows :
          /\ map_df.rows[i]["Style"] # map_df.rows[j]["Style"]
          /\ TrimUpper(map_df.rows[i]["Style"]) = TrimUpper(map_df.rows[j]["Style"])

\* C4: with a unique-keyed mapping the merged output has one row per primary
\* row, in the primary's order: none duplicated, none dropped.
C4_RowCountPreserved ==
    (merge_pc = "returned" /\ UniqueMapping) =>
        /\ Len(merged.rows) = Len(df.rows)
        /\ \A n \in DOMAIN merged.rows : merged.src[n] = n

\* a primary row without a match came through a merge with a non-empty mapping
C4_Witness ==
    /\ merge_pc = "returned"
    /\ UniqueMapping
    /\ map_df.rows # <<>>
    /\ \E n \in DOMAIN merged.rows : merged.mrow[n] = 0

\* C5 as stated, for tables that both carry the AE field: a primary row without
\* a mapping row keeps every fill field exactly as it was, and
\* missing_style_rows counts the row.
C5_UnmatchedRowKeptAndCounted ==
    (merge_pc = "returned" /\ UniqueMapping /\ "AE" \in df.cols \cap map_df.cols) =>
        LET unmatched == {n \in DOMAIN merged.rows : merged.mrow[n] = 0}
        IN /\ \A n \in unmatched : \A c \in FillCols \cap df.cols :
                 merged.rows[n][c] = Before(n, c)
           /\ diag.missing_style_rows >= Cardinality(unmatched)
           /\ \A n \in unmatched : merged.rows[n]["Style"] \in diag.missing_styles_top

\* C6: a primary row and a mapping row are joined exactly when their keys are
\* equal after trimming and upper-casing.
C6_JoinOnTrimUpper ==
    merge_pc = "returned" =>
        \A i \in DOMAIN df.rows : \A j \in DOMAIN map_df.rows :
            (\E n \in DOMAIN merged.rows : merged.src[n] = i /\ merged.mrow[n] = j)
            <=> TrimUpper(df.rows[i]["Style"]) = TrimUpper(map_df.rows[j]["Style"])

\* two rows whose raw keys differ only in case and whitespace were joined while
\* another mapping row was not
C6_Witness ==
    /\ merge_pc = "returned"
    /\ \E n \in DOMAIN merged.rows :
          /\ merged.mrow[n] # 0
          /\ df.rows[merged.src[n]]["Style"] # map_df.rows[merged.mrow[n]]["Style"]
          /\ \E j \in DOMAIN map_df.rows : j # merged.mrow[n]

-----------------------------------------------------------------------------
(* Claims about the cleaner, checked under SpecClean *)

\* the required columns that no header of the raw table trims to
AbsentCols ==
    {c \in SeqToSet(KEEP_COLS) :
        \A i \in DOMAIN df_raw.columns : Strip(df_raw.columns[i]) # c}

IsZero(v) == v.k = "fin" /\ v.n = 0
IsInfinite(v) == v.k \in {"inf", "-inf"}
IsMissing(v) == v.k \in {"nan", "NA"}

\* C7 as stated: for a raw table with every required column, clean() returns a
\* table with one row per input row, whatever the cells hold.
C7_RowCountPreserved ==
    (clean_pc \notin {"call", "idle"} /\ AbsentCols = {}) =>
        /\ clean_pc = "returned"
        /\ Len(clean_out) = Len(df_raw.rows)

C9_MarginPctMissing ==
    clean_pc = "returned" =>
        \A i \in DOMAIN clean_out :
            (\/ IsZero(clean_out[i].retail)
             \/ IsMissing(clean_out[i].retail)
             \/ IsMissing(clean_out[i].cost)) =>
                clean_out[i].margin_pct = FNaN

\* C10: a raw table that lacks required columns (after trimming the headers)
\* makes clean() fail with the error that names exactly those columns, and no
\* cleaned table is produced.
C10_MissingColumnsFailFast ==
    (clean_pc \notin {"call", "idle"} /\ AbsentCols # {}) =>
        /\ clean_pc = "ValueError"
        /\ SeqToSet(clean_err) = AbsentCols
        /\ Len(clean_err) = Cardinality(AbsentCols)
        /\ clean_out = <<>>

\* the call failed on a table with rows whose header has a padded required
\* column, which is not among the columns the error names
C10_Witness ==
    /\ clean_pc = "ValueError"
    /\ df_raw.rows # <<>>
    /\ \E i \in DOMAIN df_raw.columns :
          /\ df_raw.columns[i] # Strip(df_raw.columns[i])
          /\ Strip(df_raw.columns[i]) \in SeqToSet(KEEP_COLS)
          /\ Strip(df_raw.columns[i]) \notin SeqToSet(clean_err)

\* the identifier without a ".0" at its end
WithoutDotZero(s) ==
    IF Len(s) >= 2 /\ s[Len(s) - 1] = "." /\ s[Len(s)] = "0"
    THEN SubSeq(s, 1, Len(s) - 2) ELSE s

\* C24: the sku that clean() returns is the trimmed identifier without the
\* ".0" it may end in; every other character of it is kept.
C24_OnlyTrailingDotZeroRemoved ==
    clean_pc = "returned" =>
        \A i \in DOMAIN clean_out :
            LET raw == Col(StripHeader(df_raw.columns), df_raw.rows[i], "sku")
            IN raw.k = "str" => clean_out[i].sku = Str(WithoutDotZero(Strip(raw.s)))

\* what is left of a money cell once "$" and "," are removed and the text is
\* trimmed
MoneyToken(c) == Strip(RemoveChars(AsTypeStr(c), {"$", ","}))

IsPlaceholder(t) == t \in {<<>>, <<"N", "A">>, <<"N", "/", "A">>, <<"n", "a", "n">>}

\* the texts that denote a number: [sign] digits [. digits] [e [sign] digits],
\* with a digit on at least one side of the point, or a signed infinity
RECURSIVE AllDigits(_)
AllDigits(s) == s = <<>> \/ (IsDigit(Head(s)) /\ AllDigits(Tail(s)))

IsInfinityText(t) ==
    \E sign \in {<<>>, <<"+">>, <<"-">>} : Lower(t) \in {sign \o <<"i", "n", "f">>, sign \o <<"i", "n", "f", "i", "n", "i", "t", "y">>}

IsNumberText(t) ==
    \E a \in 0..Len(t) : \E b \in a..Len(t) : \E c \in b..Len(t) :
        LET sign == SubSeq(t, 1, a)
            whole == SubSeq(t, a + 1, b)
            frac == SubSeq(t, b + 1, c)
            ex == SubSeq(t, c + 1, Len(t))
        IN /\ sign \in {<<>>, <<"+">>, <<"-">>}
           /\ AllDigits(whole)
           /\ frac = <<>> \/ (Head(frac) = "." /\ AllDigits(Tail(frac)))
           /\ Len(whole) + Len(frac) > (IF frac = <<>> THEN 0 ELSE 1)
           /\ \/ ex = <<>>
              \/ /\ Head(ex) \in {"e", "E"}
                 /\ \E k \in 1..Len(ex) :
                       /\ SubSeq(ex, 2, k) \in {<<>>, <<"+">>, <<"-">>}
                       /\ k < Len(ex)
                       /\ AllDigits(SubSeq(ex, k + 1, Len(ex)))

IsAmountText(t) == IsNumberText(t) \/ IsInfinityText(t)

\* the number a plain decimal text denotes, summed digit by digit: the digit
\* at distance p left of the point weighs 10^p, one at distance q right of it
\* weighs 10^-q
PlainDecimal(t) == \A i \in DOMAIN t : IsDigit(t[i]) \/ t[i] = "."

Denotes(t, v) ==
    LET point == IF \E i \in DOMAIN t : t[i] = "."
                 THEN CHOOSE i \in DOMAIN t : t[i] = "." ELSE Len(t) + 1
        nfrac == IF point > Len(t) THEN 0 ELSE Len(t) - point
        RECURSIVE Sum(_)
        Sum(i) ==
            IF i > Len(t) THEN 0
            ELSE IF i = point THEN Sum(i + 1)
            ELSE DigitVal(t[i]) *
                   Pow10(IF i < point THEN point - 1 - i + nfrac ELSE Len(t) - i)
                 + Sum(i + 1)
    IN v.k = "fin" /\ v.n * Pow10(nfrac) = Sum(1) * v.d

\* C25: money normalization does not stop clean() and does not make up a
\* value: a cost or retail cell that holds a placeholder or text that is no
\* number comes out missing (not zero), a number comes out as that number, and
\* every raw row has its row in the result.
C25_MoneyMissingNotZero ==
    LET cols == StripHeader(df_raw.columns)
    IN /\ clean_pc = "ValueError" => MissingCols(cols) # <<>>
       /\ clean_pc = "TypeError" =>
             \E i \in DOMAIN df_raw.rows : \E c \in INT_COLS :
                 UnsafeInt64Cast(Col(cols, df_raw.rows[i], c))
       /\ clean_pc = "returned" =>
             /\ Len(clean_out) = Len(df_raw.rows)
             /\ \A i \in DOMAIN clean_out : \A name \in {"cost", "retail"} :
                   LET t == MoneyToken(Col(cols, df_raw.rows[i], name))
                       v == clean_out[i][name]
                   IN /\ IsPlaceholder(t) \/ ~IsAmountText(t) => v.k = "nan"
                      /\ ~IsPlaceholder(t) /\ IsAmountText(t) => v.k \in {"fin", "inf", "-inf"}
                      /\ IsInfinityText(t) => v.k = (IF Head(t) = "-" THEN "-inf" ELSE "inf")
                      /\ IsNumberText(t) /\ PlainDecimal(t) => Denotes(t, v)

\* a placeholder and a text that is no number have both come out missing
C25_Witness ==
    /\ clean_pc = "returned"
    /\ \E i \in DOMAIN clean_out :
          LET t == MoneyToken(Col(StripHeader(df_raw.columns), df_raw.rows[i], "cost"))
          IN t = <<"T", "B", "D">> /\ clean_out[i].cost.k = "nan" /\ clean_out[i].retail.k = "fin"

-----------------------------------------------------------------------------
(* Claims about dedupe_within_month *)

\* some row of the table carries a stock-keeping identifier
SomeSku(t) == \E i \in DOMAIN t : t[i].sku.k = "str" /\ t[i].sku.s # <<>>

\* the Deduplication Key of row r of table t: the reporting period with the
\* identifier chosen for the table
DeduplicationKey(t, r) ==
    IF SomeSku(t) THEN <<r.report_month, r.sku>>
    ELSE <<r.report_month, r.style, r.name, r.logo>>

\* the positions of t that no later row of the same Deduplication Key follows
LastOfKey(t) ==
    {i \in DOMAIN t :
        ~ \E j \in DOMAIN t :
            j > i /\ DeduplicationKey(t, t[j]) = DeduplicationKey(t, t[i])}

BlankSkuRows(t) == {i \in DOMAIN t : ~(t[i].sku.k = "str" /\ t[i].sku.s # <<>>)}

\* C11: dedupe_within_month returns at most as many rows as it was given, and
\* no two rows of the result share the same Deduplication Key.
C11_NoSharedKey ==
    dd_calls > 0 =>
        /\ Len(dd_out) <= Len(dd_in)
        /\ \A i, j \in DOMAIN dd_out :
              i # j => DeduplicationKey(dd_in, dd_out[i]) # DeduplicationKey(dd_in, dd_out[j])

\* a call that dropped a row and returned several rows
C11_Witness ==
    /\ dd_calls > 0
    /\ Len(dd_out) < Len(dd_in)
    /\ Len(dd_out) >= 2

\* C12: of the rows that share a Deduplication Key, exactly the last one in the
\* original order is kept, with its own values in every column, and the result
\* keeps the original order.
C12_LastRowKept ==
    dd_calls > 0 => dd_out = TakeRows(dd_in, LastOfKey(dd_in))

\* two rows of one key with different values: the later one is returned, the
\* earlier one is not
C12_Witness ==
    /\ dd_calls = 1
    /\ \E i, j \in DOMAIN dd_in :
          /\ i < j
          /\ DeduplicationKey(dd_in, dd_in[i]) = DeduplicationKey(dd_in, dd_in[j])
          /\ dd_in[i] # dd_in[j]
          /\ \E n \in DOMAIN dd_out : dd_out[n] = dd_in[j]
          /\ \A n \in DOMAIN dd_out : dd_out[n] # dd_in[i]

\* C13: dedupe_within_month applied to its own result returns that result
\* unchanged: the same rows in the same order with the same columns.
C13_Idempotent ==
    dd_calls >= 2 => dd_out = dd_in

\* the second call, after a first call on a table with a sku that dropped a
\* row with a blank sku
C13_Witness ==
    /\ dd_calls = 2
    /\ SomeSku(canon)
    /\ Cardinality(BlankSkuRows(dd_in)) < Cardinality(BlankSkuRows(canon))
    /\ dd_out # <<>>

\* the key of row r of table t as C23 words it: the sku identifies the rows only
\* when every row of the table has one
StatedKey(t, r) ==
    IF \A i \in DOMAIN t : t[i].sku.k = "str" /\ t[i].sku.s # <<>>
    THEN <<r.report_month, r.sku>>
    ELSE <<r.report_month, r.style, r.name, r.logo>>

\* C23: the key is chosen once per table, (report_month, sku) only when every
\* row has a non-blank sku and (report_month, style, name, logo) for the whole
\* table otherwise, so the result holds the last row of each such key and rows
\* with a blank sku that differ in style, name or logo all stay.
C23_SkuKeyOnlyWhenAllPresent ==
    dd_calls > 0 =>
        /\ dd_out = TakeRows(dd_in,
              {i \in DOMAIN dd_in :
                  ~ \E j \in DOMAIN dd_in :
                      j > i /\ StatedKey(dd_in, dd_in[j]) = StatedKey(dd_in, dd_in[i])})
        /\ \A i \in DOMAIN dd_in :
              (~(dd_in[i].sku.k = "str" /\ dd_in[i].sku.s # <<>>)
               /\ \A j \in DOMAIN dd_in :
                     j > i => <<dd_in[j].report_month, dd_in[j].style, dd_in[j].name, dd_in[j].logo>>
                              # <<dd_in[i].report_month, dd_in[i].style, dd_in[i].name, dd_in[i].logo>>)
              => \E n \in DOMAIN dd_out : dd_out[n] = dd_in[i]

-----------------------------------------------------------------------------
(* Claims about the CLI, checked under SpecCli *)

\* the rows of a table that belong to period p, in their order
RowsOf(rows, p) == SelectSeq(rows, LAMBDA r : r.report_month = p)

\* the latest run cleaned its extract and went into the master dataset
UpsertRun == cli_runs > 0 /\ cli_exit = 0 /\ cli_args.master_parquet

ReplaceRun == UpsertRun /\ ~cli_args.no_replace

\* per extract file, the required columns that no header of it trims to
ExtractAbsent ==
    [path \in InputPaths |->
        LET columns == Extract(path).columns
        IN {c \in SeqToSet(KEEP_COLS) : \A i \in DOMAIN columns : Strip(columns[i]) # c}]

\* after a replace-mode run for period P the master holds, for P, exactly the
\* run's rows, and for every other period the rows it held before
C14_ReplacePost ==
    ReplaceRun =>
        /\ master.exists
        /\ \A i \in DOMAIN master.rows : master.rows[i].report_month \in Months
        /\ RowsOf(master.rows, cli_args.report_month) = cli_clean
        /\ \A q \in Months \ {cli_args.report_month} :
              RowsOf(master.rows, q) = RowsOf(cli_prev.master.rows, q)

\* as long as no run appended to an existing master, the master holds for each
\* period only the rows of the latest run for that period
C14_LatestOnly ==
    (master.exists /\ ~cli_appended) =>
        \A p \in Months : RowsOf(master.rows, p) = cli_latest[p]

\* a replace-mode run with the arguments of the replace-mode run before it
\* leaves the master as it is
C14_RerunStep ==
    (ReplaceRun /\ ReplaceRun' /\ cli_args' = cli_args) => master' = master

\* C14: a replace-mode run for period P leaves the master with exactly the
\* run's cleaned, deduplicated rows for P and every other period's rows
\* unchanged; after replace-mode runs only, the master holds per period the
\* rows of the latest run for it; re-running the same input changes nothing.
C14_ReplaceUpsert ==
    /\ [](C14_ReplacePost /\ C14_LatestOnly)
    /\ [][C14_RerunStep]_vars

\* a replace-mode run with rows, on a master that held other rows for the
\* run's period and rows of another period
C14_Witness ==
    /\ ReplaceRun
    /\ cli_clean # <<>>
    /\ RowsOf(cli_prev.master.rows, cli_args.report_month) \notin {<<>>, cli_clean}
    /\ \E q \in Months \ {cli_args.report_month} : RowsOf(cli_prev.master.rows, q) # <<>>

\* C15: a --no-replace run on an existing master removes no row: the new
\* master is the old master followed by the run's cleaned rows, also when the
\* old master already holds the same rows for the period.
C15_NoReplaceAppends ==
    (UpsertRun /\ cli_args.no_replace /\ cli_prev.master.exists) =>
        master = File(cli_prev.master.rows \o cli_clean)

\* the same period run twice with --no-replace: the period's rows are in the
\* master twice
C15_Witness ==
    /\ UpsertRun
    /\ cli_args.no_replace
    /\ cli_clean # <<>>
    /\ cli_prev.master.rows = cli_clean
    /\ RowsOf(master.rows, cli_args.report_month) = cli_clean \o cli_clean

\* C16: a run on an extract that lacks a required column ends with a non-zero
\* status and the error that names the missing columns, and has written neither
\* the cleaned output file nor the master dataset.
C16_SchemaMismatchWritesNothing ==
    (cli_runs > 0 /\ ExtractAbsent[cli_args.input_path] # {}) =>
        /\ cli_exit # 0
        /\ cli_err.type = "ValueError"
        /\ SeqToSet(cli_err.missing) = ExtractAbsent[cli_args.input_path]
        /\ csv_file = cli_prev.csv_file
        /\ master = cli_prev.master

\* a failed run with --master-parquet, once without and once with the two
\* files in place
C16_Witness ==
    /\ cli_runs > 0
    /\ cli_exit # 0
    /\ cli_err.type = "ValueError"
    /\ cli_args.master_parquet
    /\ csv_file.exists
    /\ master.exists
    /\ master.rows # <<>>

-----------------------------------------------------------------------------
(* Claims about the disposition normalizer, checked under SpecDisp *)

IsUpperCh(ch) == \E i \in DOMAIN UpperChars : UpperChars[i] = ch
IsLowerCh(ch) == \E i \in DOMAIN LowerChars : LowerChars[i] = ch

\* the text is what title-casing writes: a letter is a capital exactly when no
\* letter precedes it
IsTitleCased(s) ==
    \A i \in DOMAIN s :
        LET after == i > 1 /\ (IsUpperCh(s[i - 1]) \/ IsLowerCh(s[i - 1]))
        IN /\ IsUpperCh(s[i]) => ~after
           /\ IsLowerCh(s[i]) => after

\* the spellings the dict knows of each disposition, and its canonical label
Synonyms ==
    {[keys |-> {<<"r", "t", "v", "-", " ", "c", "l", "o", "s", "e", "o", "u", "t">>, <<"r", "t", "v", " ", "-", " ", "c", "l", "o", "s", "e", "o", "u", "t">>, <<"r", "t", "v", " ", "c", "l", "o", "s", "e", "o", "u", "t">>}, label |-> RTVCloseout],
     [keys |-> {<<"r", "t", "v", "-", " ", "m", "e", "l", "t">>, <<"r", "t", "v", " ", "-", " ", "m", "e", "l", "t">>, <<"r", "t", "v", " ", "m", "e", "l", "t">>}, label |-> RTVMelt],
     [keys |-> {<<"h", "o", "l", "d", " ", "o", "n", " ", "m", "e", "m", "o", "/", "m", "o", "n", "i", "t", "o", "r">>, <<"h", "o", "l", "d", " ", "o", "n", " ", "m", "e", "m", "o", " ", "/", " ", "m", "o", "n", "i", "t", "o", "r">>},
      label |-> HoldOnMemoMonitor],
     [keys |-> {<<"p", "e", "r", "p", "e", "t", "u", "a", "l", " ", "m", "e", "m", "o">>}, label |-> PerpetualMemo]}

\* C17: normalizing a normalized label returns it unchanged, whatever label
\* the first call was given.
C17_NormalizeIdempotent ==
    disp_calls >= 2 => disp_out = disp_in

\* the second call, on a title-cased label that is none of the five canonical
\* ones and that the first call made from a different text
C17_Witness ==
    /\ disp_calls = 2
    /\ disp_in[1].s \notin allowed
    /\ label[1] # disp_in[1]
    /\ disp_out[1].s # <<>>

\* C18: every output is text, one of the five canonical labels or a
\* title-cased text; it is never blank, and it has the input's own letter case
\* only when the input was already written that way.
C18_CanonicalOrTitleCased ==
    disp_calls > 0 =>
        \A i \in DOMAIN disp_out :
            /\ disp_out[i].k = "str"
            /\ disp_out[i].s \in allowed \/ IsTitleCased(disp_out[i].s)
            /\ Strip(disp_out[i].s) # <<>>
            /\ disp_out[i] = disp_in[i] =>
                  disp_in[i].s \in allowed \/ IsTitleCased(disp_in[i].s)

\* an unrecognized label in mixed case came out title-cased
C18_Witness ==
    /\ disp_calls = 1
    /\ disp_out[1].s \notin allowed
    /\ disp_in[1].k = "str"
    /\ ~IsTitleCased(disp_in[1].s)
    /\ \E i \in DOMAIN disp_out[1].s : IsLowerCh(disp_out[1].s[i])

\* C20: a label that, trimmed, with its whitespace runs collapsed and
\* lower-cased, is one of the known spellings of a disposition comes out as that
\* disposition's one canonical label.
C20_SynonymsToOneLabel ==
    disp_calls > 0 =>
        \A i \in DOMAIN disp_in : \A g \in Synonyms :
            (disp_in[i].k = "str"
             /\ Lower(CollapseSpaces(Strip(disp_in[i].s))) \in g.keys) =>
                disp_out[i] = Str(g.label)

\* "RTV- CLOSEOUT" written with padding and a tab came out as "RTV - Closeout"
C20_Witness ==
    /\ disp_calls = 1
    /\ disp_in[1].k = "str"
    /\ Lower(CollapseSpaces(Strip(disp_in[1].s))) = <<"r", "t", "v", "-", " ", "c", "l", "o", "s", "e", "o", "u", "t">>
    /\ \E i \in DOMAIN disp_in[1].s : disp_in[1].s[i] = "\t"
    /\ disp_in[1].s[1] = " "
    /\ \E i \in DOMAIN disp_in[1].s : disp_in[1].s[i] = "C"
    /\ disp_out[1] = Str(RTVCloseout)

\* C21: a missing value, the empty string and a whitespace-only string all come
\* out as the label "Unspecified".
C21_BlankIsUnspecified ==
    disp_calls > 0 =>
        \A i \in DOMAIN disp_in :
            (disp_in[i].k # "str" \/ \A n \in DOMAIN disp_in[i].s : IsSpace(disp_in[i].s[n])) =>
                disp_out[i] = Str(Unspecified)

\* the first call was given a missing value
C21_Witness ==
    /\ disp_calls = 1
    /\ label[1] = NaN
    /\ disp_out[1] = Str(Unspecified)

\* the first call was given a text of several whitespace characters
C21_WitnessBlankText ==
    /\ disp_calls = 1
    /\ label[1].k = "str"
    /\ Len(label[1].s) >= 2
    /\ \A n \in DOMAIN label[1].s : IsSpace(label[1].s[n])
    /\ disp_out[1] = Str(Unspecified)

-----------------------------------------------------------------------------
(* Claims about the memo page, checked under SpecPage *)

\* C19: on either memo page, every row's normalized label is among the options
\* of the Disposition control, every option other than "All" is the normalized
\* label of some row, and a selection without "All" leaves exactly the rows
\* whose normalized label is selected, at least one of them.
C19_FilterOnNormalizedColumn ==
    (page_pc = "done" /\ page_df.has_disposition) =>
        /\ DOMAIN page_disp = DOMAIN page_df.Disposition
        /\ \A i \in DOMAIN page_disp : page_disp[i] \in SeqToSet(disp_options)
        /\ \A n \in DOMAIN disp_options :
              disp_options[n] # All => \E i \in DOMAIN page_disp : page_disp[i] = disp_options[n]
        /\ (disp_selected # {} /\ All \notin disp_selected) =>
              /\ page_shown = {i \in DOMAIN page_disp : page_disp[i] \in disp_selected}
              /\ page_shown # {}

\* one option is selected: its rows are shown, among them one whose raw label
\* is spelt differently, and another row is filtered out
C19_Witness ==
    /\ page_pc = "done"
    /\ page_df.has_disposition
    /\ \E o \in SeqToSet(disp_options) \ {All} :
          /\ disp_selected = {o}
          /\ \E i \in page_shown : page_df.Disposition[i] # o
    /\ page_shown # DOMAIN page_df.Disposition

-----------------------------------------------------------------------------
(* Claims about the three table functions together, checked under SpecCore *)

-----------------------------------------------------------------------------
(* Claims about infer_report_month *)

\* the base name: the end of the path that holds no "/" and follows one, or
\* the whole path
BaseNameOf(path) ==
    CHOOSE n \in {SubSeq(path, i, Len(path)) : i \in 1..(Len(path) + 1)} :
        /\ \A j \in DOMAIN n : n[j] # "/"
        /\ Len(n) = Len(path) \/ path[Len(path) - Len(n)] = "/"

YearTexts == {<<"2", "0", Digits[a], Digits[b]>> : a, b \in DOMAIN Digits}
MonthTexts ==
    {<<"0", "1">>, <<"0", "2">>, <<"0", "3">>, <<"0", "4">>, <<"0", "5">>, <<"0", "6">>, <<"0", "7">>, <<"0", "8">>, <<"0", "9">>, <<"1", "0">>, <<"1", "1">>, <<"1", "2">>}
MonthAbbreviations ==
    <<<<"j", "a", "n">>, <<"f", "e", "b">>, <<"m", "a", "r">>, <<"a", "p", "r">>, <<"m", "a", "y">>, <<"j", "u", "n">>, <<"j", "u", "l">>, <<"a", "u", "g">>, <<"s", "e", "p">>, <<"o", "c", "t">>, <<"n", "o", "v">>, <<"d", "e", "c">>>>

\* a YYYY-MM or YYYY_MM token begins at position i of n
NumericToken(n, i) ==
    /\ i + 6 <= Len(n)
    /\ SubSeq(n, i, i + 3) \in YearTexts
    /\ n[i + 4] \in {"-", "_"}
    /\ SubSeq(n, i + 5, i + 6) \in MonthTexts

\* at position i of n begins the abbreviation of month number k, followed by
\* letters, at most one separator and, at position p, a year
NamedToken(n, i, k, p) ==
    /\ i + 2 <= Len(n)
    /\ Lower(SubSeq(n, i, i + 2)) = MonthAbbreviations[k]
    /\ p >= i + 3 /\ p + 3 <= Len(n)
    /\ SubSeq(n, p, p + 3) \in YearTexts
    /\ \/ \A j \in (i + 3)..(p - 1) : IsLetter(n[j])
       \/ /\ p - 1 >= i + 3
          /\ n[p - 1] \in {" ", "_", "-"}
          /\ \A j \in (i + 3)..(p - 2) : IsLetter(n[j])

TwoDigits(k) == <<Digits[(k \div 10) + 1], Digits[(k % 10) + 1]>>

HasNumericToken(n) == \E i \in DOMAIN n : NumericToken(n, i)
HasNamedToken(n) ==
    \E i \in DOMAIN n : \E k \in DOMAIN MonthAbbreviations : \E p \in DOMAIN n :
        NamedToken(n, i, k, p)

-----------------------------------------------------------------------------
(* Claims about the login gate, the session and the navigation *)

\* the latest run went past require_login()
PageCodeRan == run.out \in {"page", "logout", "KeyError in page"}

\* C27: a run of Home.py goes past require_login() only with a token in the
\* session that decodes at that moment; without a token it shows the login
\* form and stops; with a token that does not decode it clears the whole
\* session and stops.
C27_LoginGate ==
    run.out # "none" =>
        /\ PageCodeRan =>
              /\ "token" \in DOMAIN run.before
              /\ Decodes(run.before["token"], run.clock)
        /\ "token" \notin DOMAIN run.before =>
              run.form /\ ~PageCodeRan /\ run.nav = <<>>
        /\ "token" \in DOMAIN run.before /\ ~Decodes(run.before["token"], run.clock) =>
              /\ run.out = "Session expired"
              /\ DOMAIN session = {}
              /\ ~run.form /\ run.nav = <<>>

\* a session with a page's key and a token that has expired was cleared
C27_Witness ==
    /\ run.out = "Session expired"
    /\ {"token", "user", "role", "page_num"} \subseteq DOMAIN run.before
    /\ DOMAIN session = {}

\* C28: a session that holds "token" holds "user" and "role"; logout() removes
\* the three and leaves every other key as it was.
C28_TokenWithUserAndRole ==
    /\ "token" \in DOMAIN session => {"user", "role"} \subseteq DOMAIN session
    /\ run.out = "logout" =>
          /\ DOMAIN session = DOMAIN run.at_logout \ {"token", "user", "role"}
          /\ \A k \in DOMAIN session : session[k] = run.at_logout[k]

\* the paths the latest run offered
Offered == {run.nav[j].path : j \in DOMAIN run.nav}

\* C29: a page of the catalog is offered exactly when its list of roles is
\* empty, or holds the user's role, or the role is "admin".
C29_RoleNavigation ==
    run.out \in {"page", "logout"} =>
        LET role == run.before["role"]
        IN /\ \A i \in DOMAIN catalog :
                 catalog[i].path \in Offered <=>
                     \/ catalog[i].roles = <<>>
                     \/ \E j \in DOMAIN catalog[i].roles : catalog[i].roles[j] = role
                     \/ role = "admin"
           /\ role = "admin" => Len(run.nav) = Len(catalog)
           /\ role = "sales" =>
                 Offered = {"pages/00_Signet_Sales.py", "pages/10_Slow_Memo_Analysis.py",
                            "pages/20_Image_Lookup.py", "pages/21_Image_Upload_Search.py"}
           /\ role = "viewer" =>
                 Offered = {"pages/20_Image_Lookup.py", "pages/21_Image_Upload_Search.py"}

\* an admin was offered a page that lists only "sales"
C29_Witness ==
    /\ run.out = "page"
    /\ run.before["role"] = "admin"
    /\ "pages/00_Signet_Sales.py" \in Offered

-----------------------------------------------------------------------------
(* Claims about the copies of the disposition normalizer *)

\* C30: the normalizer of the current memo page, the one of the legacy page
\* and the inline normalization of the legacy page's analytics give the same
\* label for every input.
C30_CopiesAgree ==
    disp_calls > 0 =>
        \A i \in DOMAIN disp_in :
            /\ disp_out[i] = _normalize_disposition(disp_in)[i]
            /\ disp_out[i] = analytics_disposition(disp_in)[i]

\* the two copies of the legacy page give the same label
C30_LegacyCopiesAgree ==
    disp_calls > 0 =>
        \A i \in DOMAIN disp_in :
            _normalize_disposition(disp_in)[i] = analytics_disposition(disp_in)[i]

====
